---- MODULE Spec2Model ----
(***************************************************************************)
(* A model of the Letterboxd scraper's reconciliation pipeline             *)
(* (src/backend/scraper.py, src/backend/main.py).                          *)
(*                                                                         *)
(* Values.  A rating is kept as a number of half stars (4.5 stars = 9).    *)
(* Python's None in a numeric field is the value None, the empty string '' *)
(* in a numeric column is EmptyStr.  Titles are strings, "" the empty one. *)
(***************************************************************************)
EXTENDS Integers, Sequences, FiniteSets, TLC

VARIABLES
    \* ---- reconciliation (EnhancedLetterboxdScraper.save_all_data)
    films_data,      \* self.films_data
    diary_entries,   \* self.diary_entries
    reviews_data,    \* self.reviews_data
    all_ratings,     \* the rows of ratings.csv built by the last run
    all_likes,       \* the rows of likes.csv built by the last run
    resolved,        \* rating_entry of each film, as the last run resolved it
    save_state,      \* "not_run" | "returned" | "raised"
    save_runs,       \* how many times save_all_data has run
    \* ---- one call of EnhancedLetterboxdScraper.fetch_with_retry
    fetch_def,       \* "bound": the definition the class ends up with;
                     \* "shadowed": the earlier definition it replaces
    max_retries,     \* the max_retries argument
    attempt,         \* the loop variable
    gets,            \* number of session.get calls made
    answers,         \* what the server answered to each of them
    slept,           \* the wait_time of each time.sleep
    fetch_pc,        \* "idle" | "loop" | "returned" | "escaped"
    fetch_result,    \* "pending" | "response" | "None"
    \* ---- the scraping steps of run_scraping_task
    task_pc,         \* "idle", the source being scraped, "scraped" or "failed"
    extractor_pc,    \* "loop" | "returned": the extractor of that source
    page_num,        \* its page cursor
    requested,       \* the pages it has requested, with what each held
    records,         \* the list it has built (all_films, diary_entries, ...)
    movies_seen,     \* movies_seen of scrape_all_films
    scraped,         \* the sources whose extractor has returned, in order
    first_failure,   \* the first source that ended on a failed fetch
    \* ---- the scraping job of run_scraping_task
    job,             \* the ScrapingJob row
    profile_status,  \* Profile.scraping_status
    job_pc,          \* "queued", the step run_scraping_task is at, or "done"
    job_phase,       \* "announce": before the step's update_job_status;
                     \* "call": before the step itself
    raised_in,       \* the step that raised, or "none"
    clock,           \* datetime.utcnow(), counted in update_job_status calls
    table_rows,      \* the profile's rows of the ratings and reviews tables
    rows_before,     \* what they were when the job started
    \* ---- the load and store steps of run_scraping_task
    analyzer_profile, \* the frames load_profile read from the saved files
    stored_ratings,  \* the rows of the ratings table for this profile
    store_pc,        \* "saving" | "loaded" | "stored"
    \* ---- one call of EnhancedLetterboxdScraper.convert_stars_to_rating
    stars_text,      \* the argument, a sequence of characters
    stars_rating,    \* what the call returned, in half stars
    stars_pc,        \* "call" | "returned"
    \* ---- a comparison of two profiles (UnifiedLetterboxdAnalyzer)
    ratings_1,       \* profile1.ratings: rows of Name, Year, Rating
    ratings_2,       \* profile2.ratings
    engaged,         \* per profile: review_engagement_score > 0.5
    common_movies,   \* what find_common_movies(profile1, profile2) returned
    compatibility,   \* what calculate_compatibility(profile1, profile2) returned
    compare_pc,      \* "idle" | "loaded" | "found" | "calculated"
    \* ---- one call of UnifiedLetterboxdAnalyzer._get_recommendation
    score,           \* the argument, a fraction
    recommendation,  \* the text it returned, by the name of its tier
    tier_pc,         \* "call" | "returned"
    \* ---- the analysis of one profile (UnifiedLetterboxdAnalyzer)
    profile_ratings, \* profile.ratings: rows of Name, Year, Rating
    review_lengths,  \* len(str(review)) of each review of profile.reviews
    patterns,        \* what extract_viewing_patterns(profile) returned
    personality,     \* what generate_personality_profile(profile) returned
    patterns_pc,     \* "idle" | "loaded" | "extracted" | "generated"
    \* ---- one call of EnhancedLetterboxdScraper.scrape_all
    site_films,      \* the films that the user's films pages list
    scrape_all_pc,   \* "idle", the step scrape_all is at, "returned", "raised"
    \* ---- the scraping jobs of one profile (scrape_profile and its tasks)
    scraping_jobs,   \* the status of each ScrapingJob row, by queued_at
    responses        \* what scrape_profile answered to each request

recVars == <<films_data, diary_entries, reviews_data, all_ratings, all_likes,
             resolved, save_state, save_runs>>

fetchVars == <<fetch_def, max_retries, attempt, gets, answers, slept, fetch_pc,
               fetch_result>>

taskVars == <<task_pc, extractor_pc, page_num, requested, records, movies_seen,
              scraped, first_failure>>

jobVars ==
    <<job, profile_status, job_pc, job_phase, raised_in, clock, table_rows,
      rows_before>>

storeVars == <<analyzer_profile, stored_ratings, store_pc>>

starsVars == <<stars_text, stars_rating, stars_pc>>

compareVars ==
    <<ratings_1, ratings_2, engaged, common_movies, compatibility, compare_pc>>

tierVars == <<score, recommendation, tier_pc>>

patternVars ==
    <<profile_ratings, review_lengths, patterns, personality, patterns_pc>>

scrapeAllVars == <<site_films, scrape_all_pc>>

queueVars == <<scraping_jobs, responses>>

vars ==
    <<recVars, fetchVars, taskVars, jobVars, storeVars, starsVars, compareVars,
      tierVars, patternVars, scrapeAllVars, queueVars>>

-----------------------------------------------------------------------------
(* Python values *)

None == -1
EmptyStr == -2

\* bool(x) for a number, None or ''
Truthy(x) == x # None /\ x # EmptyStr /\ x # 0

\* x or d
PyOr(x, d) == IF Truthy(x) THEN x ELSE d

\* str(x).strip() for a number or ''
StrStrip(x) == IF x = EmptyStr THEN "" ELSE ToString(x)

\* f"{title}_{year or 'no_year'}"
LookupKey(title, year) ==
    title \o "_" \o (IF Truthy(year) THEN ToString(year) ELSE "no_year")

\* d[k] = v on a dict d
\* a dict that keeps the first value put under a key
DictPutFirst(d, k, v) ==
    [x \in (DOMAIN d) \cup {k} |-> IF x \in DOMAIN d THEN d[x] ELSE v]

DictPut(d, k, v) == [x \in (DOMAIN d) \cup {k} |-> IF x = k THEN v ELSE d[x]]

EmptyDict == [x \in {} |-> None]

-----------------------------------------------------------------------------
(* Bounds and the values scraped records are drawn from *)

\* total number of scraped records (films + diary entries + reviews)
MaxEntries == 3
\* number of runs of save_all_data on the same inputs
MaxRuns == 2

\* extract_enhanced_movie_data returns no record without a title
FilmTitles == {"A"}
\* the text of a diary or review link may strip to ''
EntryTitles == {"A", ""}
Years == {None, 1995}
FilmRatings == {None, 10}
DiaryRatings == {None, 8}
ReviewRatings == {None, 6}

\* the record extract_enhanced_movie_data returns (is_liked is always False)
FilmRecords ==
    [title : FilmTitles, year : Years, rating : FilmRatings, is_liked : {FALSE}]

\* the record scrape_diary_entries appends
DiaryRecords ==
    [title : EntryTitles, year : Years, rating : DiaryRatings, is_liked : BOOLEAN]

\* the record scrape_reviews appends
ReviewRecords ==
    [title : EntryTitles, year : Years, rating : ReviewRatings]

-----------------------------------------------------------------------------
(* save_all_data: the ratings subset *)

\* diary_lookup / review_lookup: a later entry with the same key overwrites
RECURSIVE build_lookup(_, _)
build_lookup(entries, lookup) ==
    IF entries = <<>> THEN lookup
    ELSE LET entry == Head(entries)
             key == LookupKey(entry.title, entry.year)
         IN build_lookup(Tail(entries),
                         IF entry.title # ""
                         THEN DictPut(lookup, key, entry)
                         ELSE lookup)

\* rating_entry as first built from the film
film_entry(film) ==
    [Name |-> film.title,
     Year |-> PyOr(film.year, EmptyStr),
     Rating |-> PyOr(film.rating, EmptyStr)]

\* overlay without the "and not rating_entry['Rating']" test
overlay_no_guard(rating_entry, key, lookup) ==
    IF key \in DOMAIN lookup /\ Truthy(lookup[key].rating)
    THEN [rating_entry EXCEPT !.Rating = lookup[key].rating]
    ELSE rating_entry

\* the enrichment of rating_entry from one lookup
overlay(rating_entry, key, lookup) ==
    IF key \in DOMAIN lookup
    THEN IF Truthy(lookup[key].rating) /\ ~Truthy(rating_entry.Rating)
         THEN [rating_entry EXCEPT !.Rating = lookup[key].rating]
         ELSE rating_entry
    ELSE rating_entry

\* a film's rating_entry: its own rating, enriched from the diary, then
\* from the reviews
resolve(film, diary_lookup, review_lookup) ==
    LET key == LookupKey(film.title, film.year)
    IN overlay(overlay(film_entry(film), key, diary_lookup), key, review_lookup)

\* a filter that lets every rating_entry through
has_rating_always(rating_entry) == TRUE

\* "Only add to ratings.csv if the film actually has a rating"
has_rating(rating_entry) ==
    Truthy(rating_entry.Rating) /\ StrStrip(rating_entry.Rating) # ""

\* a list kept from the run before
all_ratings_carried == all_ratings

\* all_ratings = [] at the start of each run
all_ratings_new == <<>>

\* the loop over the universal set: rows is all_ratings, entries the
\* rating_entry built for each film with a title
RECURSIVE collect_ratings(_, _, _, _)
collect_ratings(films, diary_lookup, review_lookup, acc) ==
    IF films = <<>> THEN acc
    ELSE LET film == Head(films)
             rating_entry == resolve(film, diary_lookup, review_lookup)
         IN collect_ratings(Tail(films), diary_lookup, review_lookup,
                IF film.title # ""
                THEN [entries |-> Append(acc.entries, rating_entry),
                      rows |-> IF has_rating(rating_entry)
                               THEN Append(acc.rows, rating_entry)
                               ELSE acc.rows]
                ELSE acc)

\* a loop that also takes the diary entries as films
universal_set_and_diary == films_data \o diary_entries

\* the films the ratings loop iterates over
universal_set == films_data

-----------------------------------------------------------------------------
(* save_all_data: the likes set *)

like_entry(rec) == [Name |-> rec.title, Year |-> PyOr(rec.year, EmptyStr)]

\* "Extract likes from films_data"
RECURSIVE film_likes(_, _)
film_likes(films, acc) ==
    IF films = <<>> THEN acc
    ELSE LET film == Head(films)
         IN film_likes(Tail(films),
                       IF film.title # "" /\ film.is_liked
                       THEN Append(acc, like_entry(film))
                       ELSE acc)

\* a duplicate test that never finds one
already_liked_never(like_key, likes) == FALSE

\* any(like_key == f"{like['Name']}_{like['Year'] or 'no_year'}" for like in all_likes)
already_liked(like_key, likes) ==
    \E i \in 1..Len(likes) : like_key = LookupKey(likes[i].Name, likes[i].Year)

\* whether the local name film is bound when the diary loop reads it: only
\* the loops over films_data bind it, and only when films_data is not empty
film_is_bound(films) == films # <<>>

\* "Also check diary entries for additional likes"; raised is the
\* UnboundLocalError of reading film before any loop has bound it
RECURSIVE diary_likes(_, _, _)
diary_likes(entries, films, acc) ==
    IF entries = <<>> THEN [likes |-> acc, raised |-> FALSE]
    ELSE LET entry == Head(entries)
         IN IF entry.title # "" /\ entry.is_liked
            THEN IF ~film_is_bound(films)
                 THEN [likes |-> acc, raised |-> TRUE]
                 ELSE diary_likes(Tail(entries), films,
                         IF ~already_liked(LookupKey(entry.title, entry.year), acc)
                         THEN Append(acc, like_entry(entry))
                         ELSE acc)
            ELSE diary_likes(Tail(entries), films, acc)

-----------------------------------------------------------------------------
(* The reconciliation specification: records are scraped, then             *)
(* save_all_data runs (up to MaxRuns times on the same inputs).            *)

RecStart ==
    /\ films_data = <<>>
    /\ diary_entries = <<>>
    /\ reviews_data = <<>>
    /\ all_ratings = <<>>
    /\ all_likes = <<>>
    /\ resolved = <<>>
    /\ save_state = "not_run"
    /\ save_runs = 0

\* no call of fetch_with_retry under way
FetchIdle ==
    /\ fetch_def = "bound"
    /\ max_retries = 0
    /\ attempt = 0
    /\ gets = 0
    /\ answers = <<>>
    /\ slept = <<>>
    /\ fetch_pc = "idle"
    /\ fetch_result = "pending"

\* run_scraping_task not started
TaskIdle ==
    /\ task_pc = "idle"
    /\ extractor_pc = "loop"
    /\ page_num = 1
    /\ requested = <<>>
    /\ records = <<>>
    /\ movies_seen = {}
    /\ scraped = <<>>
    /\ first_failure = "none"

\* the job as scrape_profile created it
JobRow ==
    /\ job = [status |-> "queued", progress_message |-> "None",
              progress_percentage |-> 0, error_message |-> "None",
              started_at |-> None, completed_at |-> None]
    /\ profile_status = "queued"
    /\ job_pc = "queued"
    /\ job_phase = "call"
    /\ raised_in = "none"
    /\ clock = 0

\* no row of an earlier scrape
NoRows == [ratings |-> <<>>, reviews |-> <<>>]

JobIdle ==
    /\ JobRow
    /\ table_rows = NoRows
    /\ rows_before = NoRows

\* nothing loaded, nothing stored for the profile
StoreIdle ==
    /\ analyzer_profile = [all_films |-> <<>>, ratings |-> <<>>, likes |-> <<>>]
    /\ stored_ratings = <<>>
    /\ store_pc = "saving"

\* no call of convert_stars_to_rating under way
StarsIdle ==
    /\ stars_text = <<>>
    /\ stars_rating = None
    /\ stars_pc = "returned"

\* no profile loaded for a comparison
CompareIdle ==
    /\ ratings_1 = <<>>
    /\ ratings_2 = <<>>
    /\ engaged = <<FALSE, FALSE>>
    /\ common_movies = <<>>
    /\ compatibility = <<>>
    /\ compare_pc = "idle"

\* no call of _get_recommendation under way
TierIdle ==
    /\ score = [num |-> 0, den |-> 1]
    /\ recommendation = "none"
    /\ tier_pc = "returned"

\* no profile loaded for an analysis
PatternsIdle ==
    /\ profile_ratings = <<>>
    /\ review_lengths = <<>>
    /\ patterns = [raised |-> FALSE, dict |-> <<>>]
    /\ personality = [raised |-> FALSE, type |-> "none"]
    /\ patterns_pc = "idle"

\* no call of scrape_all under way
ScrapeAllIdle ==
    /\ site_films = <<>>
    /\ scrape_all_pc = "idle"

\* no scraping job yet, no request answered
QueueIdle ==
    /\ scraping_jobs = <<>>
    /\ responses = <<>>

\* every component but the one a specification is about
Idle(component) ==
    /\ component = "rec" \/ RecStart
    /\ component = "fetch" \/ FetchIdle
    /\ component = "task" \/ TaskIdle
    /\ component = "job" \/ JobIdle
    /\ component = "store" \/ StoreIdle
    /\ component = "stars" \/ StarsIdle
    /\ component = "compare" \/ CompareIdle
    /\ component = "tier" \/ TierIdle
    /\ component = "patterns" \/ PatternsIdle
    /\ component = "scrape_all" \/ ScrapeAllIdle
    /\ component = "queue" \/ QueueIdle

InitRec == RecStart /\ Idle("rec")

Scraped ==
    Len(films_data) + Len(diary_entries) + Len(reviews_data)

\* movie_id of a film with a year; movies_seen drops a second film with the
\* same movie_id (a film without a year gets a time-stamped movie_id)
SeenByYear(film) ==
    /\ Truthy(film.year)
    /\ \E i \in 1..Len(films_data) :
          /\ films_data[i].title = film.title
          /\ films_data[i].year = film.year

\* scrape_all_films keeps one more film
ScrapedFilm ==
    /\ save_runs = 0
    /\ Scraped < MaxEntries
    /\ \E film \in FilmRecords :
          /\ ~SeenByYear(film)
          /\ films_data' = Append(films_data, film)
    /\ UNCHANGED <<diary_entries, reviews_data, all_ratings, all_likes, resolved,
                   save_state, save_runs, fetchVars, taskVars, jobVars, storeVars,
                   starsVars, compareVars, tierVars, patternVars,
                   scrapeAllVars, queueVars>>

\* scrape_diary_entries appends one more entry
ScrapedDiaryEntry ==
    /\ save_runs = 0
    /\ Scraped < MaxEntries
    /\ \E entry \in DiaryRecords :
          diary_entries' = Append(diary_entries, entry)
    /\ UNCHANGED <<films_data, reviews_data, all_ratings, all_likes, resolved,
                   save_state, save_runs, fetchVars, taskVars, jobVars, storeVars,
                   starsVars, compareVars, tierVars, patternVars,
                   scrapeAllVars, queueVars>>

\* scrape_reviews appends one more review
ScrapedReview ==
    /\ save_runs = 0
    /\ Scraped < MaxEntries
    /\ \E review \in ReviewRecords :
          reviews_data' = Append(reviews_data, review)
    /\ UNCHANGED <<films_data, diary_entries, all_ratings, all_likes, resolved,
                   save_state, save_runs, fetchVars, taskVars, jobVars, storeVars,
                   starsVars, compareVars, tierVars, patternVars,
                   scrapeAllVars, queueVars>>

\* what save_all_data makes of the three lists: the ratings subset, then the
\* likes set
saved ==
    LET diary_lookup == build_lookup(diary_entries, EmptyDict)
        review_lookup == build_lookup(reviews_data, EmptyDict)
        rated == collect_ratings(universal_set, diary_lookup, review_lookup,
                                 [entries |-> <<>>, rows |-> all_ratings_new])
        liked == diary_likes(diary_entries, films_data,
                             film_likes(films_data, <<>>))
    IN [rows |-> rated.rows, entries |-> rated.entries, likes |-> liked.likes,
        state |-> IF liked.raised THEN "raised" ELSE "returned"]

\* one run of save_all_data
save_all_data ==
    /\ save_runs < MaxRuns
    /\ all_ratings' = saved.rows
    /\ resolved' = saved.entries
    /\ all_likes' = saved.likes
    /\ save_state' = saved.state
    /\ save_runs' = save_runs + 1
    /\ UNCHANGED <<films_data, diary_entries, reviews_data, fetchVars, taskVars,
                   jobVars, storeVars, starsVars, compareVars, tierVars,
                   patternVars, scrapeAllVars, queueVars>>

NextRec == ScrapedFilm \/ ScrapedDiaryEntry \/ ScrapedReview \/ save_all_data

SpecRec == InitRec /\ [][NextRec]_vars

-----------------------------------------------------------------------------
(* fetch_with_retry.  The class defines it twice; the second definition    *)
(* (max_retries = 3, no test for 429) replaces the first (max_retries = 5, *)
(* a longer wait on 429), so every caller runs the second.                 *)

\* bound on the max_retries argument a call is given
MaxRetriesArg == 5

DefaultMaxRetries == 3

\* what one session.get can end in: a 2xx response, a 429 response, another
\* 4xx/5xx response, or a timeout / connection error
Answers == {"ok", "429", "http_error", "conn_error"}

NoSleep == <<>>

\* an except clause that re-raises after the last attempt
on_request_exception_reraise(att, maxr) ==
    IF att < maxr - 1
    THEN [pc |-> "loop", result |-> "pending", sleep |-> <<(2 ^ att) + 1>>,
          attempt |-> att + 1]
    ELSE [pc |-> "escaped", result |-> "pending", sleep |-> NoSleep,
          attempt |-> att]

\* the except clause: wait_time = (2 ** attempt) + 1, sleep and go on unless
\* this was the last attempt
on_request_exception(att, maxr) ==
    IF att < maxr - 1
    THEN [pc |-> "loop", result |-> "pending", sleep |-> <<(2 ^ att) + 1>>,
          attempt |-> att + 1]
    ELSE [pc |-> "returned", result |-> "None", sleep |-> NoSleep,
          attempt |-> att]


\* one pass of the loop body of the bound definition: raise_for_status turns
\* every 4xx/5xx answer, 429 included, into a RequestException
fetch_with_retry(ans, att, maxr) ==
    IF ans = "ok"
    THEN [pc |-> "returned", result |-> "response", sleep |-> NoSleep,
          attempt |-> att]
    ELSE on_request_exception(att, maxr)

\* one pass of the loop body of the shadowed definition: a 429 answer sleeps
\* (2 ** attempt) * 10 and continues with the next attempt
fetch_with_retry_shadowed(ans, att, maxr) ==
    IF ans = "429"
    THEN [pc |-> "loop", result |-> "pending", sleep |-> <<(2 ^ att) * 10>>,
          attempt |-> att + 1]
    ELSE IF ans = "ok"
    THEN [pc |-> "returned", result |-> "response", sleep |-> NoSleep,
          attempt |-> att]
    ELSE on_request_exception(att, maxr)

\* a call starts: for attempt in range(max_retries)
FetchCall ==
    /\ fetch_pc = "idle"
    /\ \E d \in {"bound", "shadowed"}, m \in 0..MaxRetriesArg :
          /\ fetch_def' = d
          /\ max_retries' = m
    /\ fetch_pc' = "loop"
    /\ UNCHANGED <<attempt, gets, answers, slept, fetch_result, recVars,
                   taskVars, jobVars, storeVars, starsVars, compareVars,
                   tierVars, patternVars, scrapeAllVars, queueVars>>

\* one attempt: session.get, then the loop body
FetchAttempt ==
    /\ fetch_pc = "loop"
    /\ attempt < max_retries
    /\ \E ans \in Answers :
          LET step == IF fetch_def = "bound"
                      THEN fetch_with_retry(ans, attempt, max_retries)
                      ELSE fetch_with_retry_shadowed(ans, attempt, max_retries)
          IN /\ gets' = gets + 1
             /\ answers' = Append(answers, ans)
             /\ slept' = slept \o step.sleep
             /\ attempt' = step.attempt
             /\ fetch_pc' = step.pc
             /\ fetch_result' = step.result
    /\ UNCHANGED <<fetch_def, max_retries, recVars, taskVars, jobVars, storeVars, starsVars,
                   compareVars, tierVars, patternVars, scrapeAllVars,
                   queueVars>>

\* range(max_retries) is used up: the function ends without a return
\* statement, which returns None
FetchLoopEnd ==
    /\ fetch_pc = "loop"
    /\ attempt >= max_retries
    /\ fetch_pc' = "returned"
    /\ fetch_result' = "None"
    /\ UNCHANGED <<fetch_def, max_retries, attempt, gets, answers, slept, recVars,
                   taskVars, jobVars, storeVars, starsVars, compareVars,
                   tierVars, patternVars, scrapeAllVars, queueVars>>

InitFetch == FetchIdle /\ Idle("fetch")

NextFetch == FetchCall \/ FetchAttempt \/ FetchLoopEnd

SpecFetch == InitFetch /\ [][NextFetch]_vars

\* C5: a call of fetch_with_retry makes at most max_retries GET requests; as
\* long as it has not returned another step is possible; it never ends with
\* the request exception escaping; and when every request was answered 429
\* or failed, it has returned None after exactly max_retries requests.
C5_RetryTermination ==
    /\ gets <= max_retries
    /\ fetch_pc # "escaped"
    /\ fetch_pc = "loop" => (attempt <= max_retries /\ attempt = gets)
    /\ (fetch_pc \notin {"idle", "loop"}
         /\ \A i \in 1..Len(answers) : answers[i] # "ok")
        => (fetch_pc = "returned" /\ fetch_result = "None" /\ gets = max_retries)

\* the bound definition, called with its default max_retries, has returned
\* None after three requests that were all answered 429
C5_Witness ==
    /\ fetch_def = "bound"
    /\ max_retries = DefaultMaxRetries
    /\ fetch_pc = "returned"
    /\ fetch_result = "None"
    /\ gets = DefaultMaxRetries
    /\ \A i \in 1..Len(answers) : answers[i] = "429"


\* the wait after the attempt numbered att (from 0) follows the rule for
\* what the server answered to it
BacksOffOn429(i) ==
    LET att == i - 1
    IN /\ answers[i] = "429" => slept[i] = 10 * (2 ^ att)
       /\ answers[i] # "429" => slept[i] = (2 ^ att) + 1
       /\ 10 * (2 ^ att) > (2 ^ att) + 1

\* C13: after an attempt that received HTTP 429, fetch_with_retry waits
\* 10 x 2^attempt seconds, longer than the 2^attempt + 1 seconds it waits
\* after any other failed attempt, and it makes at most max_retries attempts
C13_RateLimitBackoff ==
    /\ gets <= max_retries
    /\ \A i \in 1..Len(slept) : BacksOffOn429(i)

\* the definition the class replaces is the one that waits longer on 429
ShadowedBacksOffOn429 ==
    fetch_def = "shadowed" =>
        /\ gets <= max_retries
        /\ \A i \in 1..Len(slept) : BacksOffOn429(i)

-----------------------------------------------------------------------------
(* convert_stars_to_rating.  The text is a sequence of characters; a       *)
(* rating is a number of half stars, so full_stars + half_stars * 0.5 is   *)
(* 2 * full_stars + half_stars.                                            *)

\* characters a star text has at most
MaxStarsLen == 4

\* the full star, the half star, a blank and any other character
StarChars == {"*", "h", " ", "x"}

RECURSIVE count(_, _)
\* str.count of a single character
count(text, char) ==
    IF text = <<>> THEN 0
    ELSE (IF Head(text) = char THEN 1 ELSE 0) + count(Tail(text), char)

\* a conversion that returns the sum also when it is zero
rating_or_zero(rating) == rating

\* "return rating if rating > 0 else None"
rating_or_none(rating) == IF rating > 0 THEN rating ELSE None

convert_stars_to_rating(text) ==
    IF text = <<>> THEN None
    ELSE LET full_stars == count(text, "*")
             half_stars == count(text, "h")
         IN rating_or_none(2 * full_stars + half_stars)

\* a caller has a star text
StarsCall ==
    /\ stars_pc = "returned"
    /\ \E text \in UNION {[1..n -> StarChars] : n \in 0..MaxStarsLen} :
          stars_text' = text
    /\ stars_pc' = "call"
    /\ UNCHANGED <<stars_rating, recVars, fetchVars, taskVars, jobVars,
                   storeVars, compareVars, tierVars, patternVars,
                   scrapeAllVars, queueVars>>

\* convert_stars_to_rating(stars_text) returns
StarsReturn ==
    /\ stars_pc = "call"
    /\ stars_rating' = convert_stars_to_rating(stars_text)
    /\ stars_pc' = "returned"
    /\ UNCHANGED <<stars_text, recVars, fetchVars, taskVars, jobVars,
                   storeVars, compareVars, tierVars, patternVars,
                   scrapeAllVars, queueVars>>

InitStars == StarsIdle /\ Idle("stars")

NextStars == StarsCall \/ StarsReturn

SpecStars == InitStars /\ [][NextStars]_vars

Occurrences(text, char) == Cardinality({i \in 1..Len(text) : text[i] = char})

\* C14: convert_stars_to_rating returns full stars + 0.5 x half stars for a
\* text with at least one star symbol, and None, never 0, for an empty text
\* or a text without a star symbol
C14_StarConversion ==
    stars_pc = "returned" =>
        LET full == Occurrences(stars_text, "*")
            half == Occurrences(stars_text, "h")
        IN /\ full + half >= 1 => stars_rating = 2 * full + half
           /\ full + half = 0 => stars_rating = None
           /\ stars_rating # 0

\* three full stars and a half star give 3.5
C14_Witness ==
    /\ stars_pc = "returned"
    /\ stars_text = <<"*", "*", "*", "h">>
    /\ stars_rating = 7

-----------------------------------------------------------------------------
(* The scraping steps of run_scraping_task: the extractors of the six      *)
(* sources run one after the other.  A page of the site is what one fetch  *)
(* of it returns, the number of entry elements it holds, how many of them  *)
(* the extractor keeps, and whether it has a next-page link.  The entries  *)
(* of the diary, the reviews, the watchlist and the lists are kept as      *)
(* <<page, index>> and only until the next extractor starts; films are     *)
(* kept as records (their rating plays no part here and is None).          *)

\* pages a source of the site has at most
MaxPages == 2
\* entry elements a page holds at most
MaxPerPage == 2
\* values of int(time.time() * 1000000) % 1000000 in a movie_id
MaxStamp == 1

Sources == <<"profile", "films", "diary", "reviews", "watchlist", "lists">>

Paginated == {"films", "diary", "reviews", "watchlist"}

\* what fetch_with_retry hands its caller
FetchReturns == {"response", "None"}

\* what extract_enhanced_movie_data makes of one container of a films page:
\* nothing (parsed is FALSE), or a film with a year, or a film without one,
\* whose movie_id carries a time stamp
FilmElements ==
    {[parsed |-> FALSE, title |-> "", year |-> None, stamp |-> 0]}
    \cup [parsed : {TRUE}, title : FilmTitles, year : Years \ {None}, stamp : {0}]
    \cup [parsed : {TRUE}, title : FilmTitles, year : {None}, stamp : 0..MaxStamp]

FilmPages == UNION {[1..n -> FilmElements] : n \in 0..MaxPerPage}

\* "Create unique identifier"
movie_id(e) ==
    IF Truthy(e.year)
    THEN e.title \o "_" \o ToString(e.year)
    ELSE e.title \o "_no_year_" \o ToString(e.stamp)

film_record(e) ==
    [title |-> e.title, year |-> e.year, rating |-> None, is_liked |-> FALSE]

\* a test that takes every film for a new one
not_seen_always(id, seen) == TRUE

\* movie_data['movie_id'] not in movies_seen
not_seen(id, seen) == id \notin seen

\* the loop over movie_containers: the films the page adds, movies_seen, and
\* the number of films dropped because their movie_id was seen
RECURSIVE page_films(_, _)
page_films(elements, acc) ==
    IF elements = <<>> THEN acc
    ELSE LET e == Head(elements)
         IN page_films(Tail(elements),
                IF e.parsed /\ not_seen(movie_id(e), acc.seen)
                THEN [films |-> Append(acc.films, film_record(e)),
                      seen |-> acc.seen \cup {movie_id(e)},
                      dups |-> acc.dups]
                ELSE [acc EXCEPT !.dups = IF e.parsed THEN @ + 1 ELSE @])

\* a loop that goes on whatever the next-page link says
continues_without_next(source, elements, kept, next) ==
    IF source = "films" THEN elements > 0 /\ kept > 0
    ELSE IF source \in Paginated THEN elements > 0
    ELSE FALSE

\* whether the extractor's loop goes on to the next page after a fetched
\* page: scrape_all_films breaks on a page without containers or without a
\* new film, the other three on a page without rows / elements; all break
\* on a page without a next link; the profile and the lists are one page
continues(source, elements, kept, next) ==
    IF source = "films" THEN elements > 0 /\ kept > 0 /\ next
    ELSE IF source \in Paginated THEN elements > 0 /\ next
    ELSE FALSE

\* a failed fetch that raises instead of ending the loop
fetch_failure_raises == "raise"

\* "if not response: break" (return, for the profile and the lists)
fetch_failure == "break"

\* the source run_scraping_task scrapes after this one
NextStep(source) ==
    LET i == CHOOSE k \in 1..Len(Sources) : Sources[k] = source
    IN IF i < Len(Sources) THEN Sources[i + 1] ELSE "scraped"

SourceSet == {Sources[k] : k \in 1..Len(Sources)}

Fetched(elements, kept, dups, next) ==
    [page |-> page_num, fetched |-> TRUE, elements |-> elements, kept |-> kept,
     dups |-> dups, next |-> next]

\* the site: its last page has no next-page link
SiteHasPage(elements, next) ==
    /\ page_num >= MaxPages => ~next
    /\ page_num > MaxPages => elements = 0

\* run_scraping_task starts with scraper.scrape_profile_info()
TaskStart ==
    /\ task_pc = "idle"
    /\ task_pc' = Sources[1]
    /\ UNCHANGED <<extractor_pc, page_num, requested, records, movies_seen,
                   scraped, first_failure, recVars, fetchVars, jobVars, storeVars,
                   starsVars, compareVars, tierVars, patternVars,
                   scrapeAllVars, queueVars>>

\* fetch_with_retry returned None for the page
FetchFailed ==
    /\ requested' = Append(requested,
          [page |-> page_num, fetched |-> FALSE, elements |-> 0, kept |-> 0,
           dups |-> 0, next |-> FALSE])
    /\ first_failure' = IF first_failure = "none" THEN task_pc ELSE first_failure
    /\ IF fetch_failure = "break"
       THEN /\ extractor_pc' = "returned"
            /\ films_data' = IF task_pc = "films" THEN records ELSE films_data
            /\ UNCHANGED task_pc
       ELSE /\ task_pc' = "failed"
            /\ UNCHANGED <<extractor_pc, films_data>>
    /\ UNCHANGED <<page_num, records, movies_seen>>

\* one pass of the loop of scrape_all_films
ScrapeFilmsPage ==
    /\ task_pc = "films"
    /\ extractor_pc = "loop"
    /\ page_num <= MaxPages + 1
    /\ \E resp \in FetchReturns :
          IF resp = "None" THEN FetchFailed
          ELSE \E content \in FilmPages, next \in BOOLEAN :
                 /\ SiteHasPage(Len(content), next)
                 /\ LET page == page_films(content,
                                   [films |-> <<>>, seen |-> movies_seen, dups |-> 0])
                        kept == Len(page.films)
                        goes_on == continues("films", Len(content), kept, next)
                    IN /\ records' = records \o page.films
                       /\ movies_seen' = page.seen
                       /\ requested' = Append(requested,
                              Fetched(Len(content), kept, page.dups, next))
                       /\ page_num' = IF goes_on THEN page_num + 1 ELSE page_num
                       /\ extractor_pc' = IF goes_on THEN "loop" ELSE "returned"
                       /\ films_data' = IF goes_on THEN films_data
                                        ELSE records \o page.films
                       /\ UNCHANGED <<task_pc, first_failure>>
    /\ UNCHANGED <<diary_entries, reviews_data, all_ratings, all_likes, resolved,
                   save_state, save_runs, scraped, fetchVars, jobVars, storeVars,
                   starsVars, compareVars, tierVars, patternVars,
                   scrapeAllVars, queueVars>>

\* one pass of the loop of scrape_diary_entries, scrape_reviews or
\* scrape_watchlist: of the rows (elements) of the page, those that lack a
\* cell or a link are skipped
ScrapeEntriesPage ==
    /\ task_pc \in Paginated \ {"films"}
    /\ extractor_pc = "loop"
    /\ page_num <= MaxPages + 1
    /\ \E resp \in FetchReturns :
          IF resp = "None" THEN FetchFailed
          ELSE \E elements \in 0..MaxPerPage, next \in BOOLEAN :
               \E kept \in 0..elements :
                 /\ SiteHasPage(elements, next)
                 /\ LET goes_on == continues(task_pc, elements, kept, next)
                    IN /\ records' = records \o [i \in 1..kept |-> <<page_num, i>>]
                       /\ requested' = Append(requested,
                              Fetched(elements, kept, 0, next))
                       /\ page_num' = IF goes_on THEN page_num + 1 ELSE page_num
                       /\ extractor_pc' = IF goes_on THEN "loop" ELSE "returned"
                       /\ UNCHANGED <<task_pc, first_failure, movies_seen, films_data>>
    /\ UNCHANGED <<diary_entries, reviews_data, all_ratings, all_likes, resolved,
                   save_state, save_runs, scraped, fetchVars, jobVars, storeVars,
                   starsVars, compareVars, tierVars, patternVars,
                   scrapeAllVars, queueVars>>

\* scrape_profile_info and scrape_custom_lists: one fetch, no page cursor
ScrapeSinglePage ==
    /\ task_pc \in SourceSet \ Paginated
    /\ extractor_pc = "loop"
    /\ \E resp \in FetchReturns :
          IF resp = "None" THEN FetchFailed
          ELSE \E elements \in 0..MaxPerPage :
               \E kept \in 0..elements :
                 /\ task_pc = "profile" => elements = 0
                 /\ records' = records \o [i \in 1..kept |-> <<page_num, i>>]
                 /\ requested' = Append(requested,
                        Fetched(elements, kept, 0, FALSE))
                 /\ extractor_pc' = "returned"
                 /\ UNCHANGED <<task_pc, first_failure, movies_seen, films_data,
                                page_num>>
    /\ UNCHANGED <<diary_entries, reviews_data, all_ratings, all_likes, resolved,
                   save_state, save_runs, scraped, fetchVars, jobVars, storeVars,
                   starsVars, compareVars, tierVars, patternVars,
                   scrapeAllVars, queueVars>>

\* the extractor has returned: run_scraping_task goes on with the next one
ExtractorReturn ==
    /\ task_pc \in SourceSet
    /\ extractor_pc = "returned"
    /\ scraped' = Append(scraped, task_pc)
    /\ task_pc' = NextStep(task_pc)
    /\ extractor_pc' = "loop"
    /\ page_num' = 1
    /\ requested' = <<>>
    /\ records' = <<>>
    /\ movies_seen' = {}
    /\ UNCHANGED <<first_failure, recVars, fetchVars, jobVars, storeVars, starsVars,
                   compareVars, tierVars, patternVars, scrapeAllVars,
                   queueVars>>

InitTask == TaskIdle /\ Idle("task")

NextTask ==
    \/ TaskStart
    \/ ScrapeFilmsPage
    \/ ScrapeEntriesPage
    \/ ScrapeSinglePage
    \/ ExtractorReturn

SpecTask == InitTask /\ [][NextTask]_vars

-----------------------------------------------------------------------------
(* The scraping job: run_scraping_task from its first update_job_status to *)
(* the end of its try statement or of its except clause.  Each extractor   *)
(* is taken as one step that returns its list (a failed fetch only makes   *)
(* the list shorter).  A percentage is kept as an integer.                 *)

\* records the three extractors of a job return at most, all together
MaxScraped == 2

\* NULL in a text column of the job row, None for a text argument
NoText == "None"

\* an update that stamps started_at whenever the status is in_progress
update_job_status_restamp(j, status, progress_message, progress_percentage, error_message, now) ==
    [status |-> status,
     progress_message |->
        IF progress_message \notin {NoText, ""}
        THEN progress_message ELSE j.progress_message,
     progress_percentage |->
        IF progress_percentage # None
        THEN progress_percentage ELSE j.progress_percentage,
     error_message |->
        IF error_message \notin {NoText, ""}
        THEN error_message ELSE j.error_message,
     started_at |-> IF status = "in_progress" THEN now ELSE j.started_at,
     completed_at |->
        IF status \in {"completed", "failed"} THEN now ELSE j.completed_at]

\* ScrapingJobRepository.update_job_status, at the time now
update_job_status(j, status, progress_message, progress_percentage, error_message, now) ==
    [status |-> status,
     progress_message |->
        IF progress_message \notin {NoText, ""}
        THEN progress_message ELSE j.progress_message,
     progress_percentage |->
        IF progress_percentage # None
        THEN progress_percentage ELSE j.progress_percentage,
     error_message |->
        IF error_message \notin {NoText, ""}
        THEN error_message ELSE j.error_message,
     started_at |->
        IF status = "in_progress" /\ j.started_at = None
        THEN now ELSE j.started_at,
     completed_at |->
        IF status \in {"completed", "failed"} THEN now ELSE j.completed_at]

\* the steps of the try statement, in order
JobSteps ==
    <<"init", "profile", "films", "diary", "reviews", "watchlist", "lists",
      "save", "load", "update_profile">>

\* the update_job_status call in front of a step
Checkpoint(step) ==
    CASE step = "init"      -> [message |-> "Initializing scraper...", pct |-> 0]
      [] step = "profile"   -> [message |-> "Scraping profile data...", pct |-> 10]
      [] step = "films"     -> [message |-> "Scraping all films...", pct |-> 25]
      [] step = "diary"     -> [message |-> "Scraping diary entries...", pct |-> 40]
      [] step = "reviews"   -> [message |-> "Scraping reviews...", pct |-> 55]
      [] step = "watchlist" -> [message |-> "Scraping watchlist...", pct |-> 70]
      [] step = "lists"     -> [message |-> "Scraping custom lists...", pct |-> 80]
      [] step = "save"      -> [message |-> "Saving data...", pct |-> 90]
      [] step = "load"      -> [message |-> "Processing data...", pct |-> 95]

\* the profile update follows load_profile with no update_job_status between
Announced == {"init", "profile", "films", "diary", "reviews", "watchlist",
              "lists", "save", "load"}

StepAfter(step) ==
    LET i == CHOOSE k \in 1..Len(JobSteps) : JobSteps[k] = step
    IN JobSteps[i + 1]

\* a ProfileData that has a join_date too
ProfileDataWithJoinDate ==
    {"username", "profile_info", "ratings", "reviews", "watched", "diary",
     "watchlist", "comments", "lists", "likes", "all_films",
     "total_movies", "avg_rating", "total_reviews", "join_date"}

\* the attributes of a ProfileData: the fields of the dataclass and what
\* __post_init__ sets
ProfileDataAttributes ==
    {"username", "profile_info", "ratings", "reviews", "watched", "diary",
     "watchlist", "comments", "lists", "likes", "all_films",
     "total_movies", "avg_rating", "total_reviews"}

\* the attributes of analyzer_profile that the profile update reads
AttributesRead == <<"avg_rating", "total_reviews", "join_date">>

\* str(e) of the exception a step raises
OSErrorText == "[Errno 28] No space left on device"

UnboundLocalErrorText == "local variable 'film' referenced before assignment"

AttributeErrorText(name) ==
    "'ProfileData' object has no attribute '" \o name \o "'"

\* the first attribute read that the object does not have, or 0
MissingAttribute ==
    IF \A k \in 1..Len(AttributesRead) : AttributesRead[k] \in ProfileDataAttributes
    THEN 0
    ELSE CHOOSE k \in 1..Len(AttributesRead) :
            /\ AttributesRead[k] \notin ProfileDataAttributes
            /\ \A m \in 1..(k - 1) : AttributesRead[m] \in ProfileDataAttributes

\* except Exception as e: the job is marked failed, the profile "error"
Failed(step, text) ==
    /\ job' = update_job_status(job, "failed", "Error occurred: " \o text, 0,
                                text, clock + 1)
    /\ clock' = clock + 1
    /\ profile_status' = "error"
    /\ raised_in' = step
    /\ job_pc' = "done"
    /\ job_phase' = "call"

\* a step before the store block raised: no row of a table was touched
ExceptClause(text) ==
    /\ Failed(job_pc, text)
    /\ UNCHANGED <<table_rows, rows_before>>

StepReturns ==
    /\ job_pc' = StepAfter(job_pc)
    /\ job_phase' = IF StepAfter(job_pc) \in Announced THEN "announce" ELSE "call"
    /\ UNCHANGED <<job, profile_status, raised_in, clock, table_rows,
                   rows_before>>

\* the lists an extractor may return
ListsOf(S) == UNION {[1..n -> S] : n \in 0..MaxScraped}

DatedOnce(films) ==
    \A i, j \in 1..Len(films) :
        (i < j /\ Truthy(films[i].year))
            => ~(films[i].title = films[j].title /\ films[i].year = films[j].year)

\* the background task starts: the job and the profile are in progress
JobStart ==
    /\ job_pc = "queued"
    /\ job' = update_job_status(job, "in_progress", Checkpoint("init").message,
                                Checkpoint("init").pct, NoText, clock + 1)
    /\ clock' = clock + 1
    /\ profile_status' = "in_progress"
    /\ job_pc' = "init"
    /\ job_phase' = "call"
    /\ UNCHANGED <<raised_in, table_rows, rows_before, recVars, fetchVars, taskVars, storeVars, starsVars, compareVars,
                   tierVars, patternVars, scrapeAllVars, queueVars>>

\* the temporary directory and the scraper, whose __init__ makes output_dir
InitScraper ==
    /\ job_pc = "init"
    /\ \E fault \in BOOLEAN :
          IF fault THEN ExceptClause(OSErrorText) ELSE StepReturns
    /\ UNCHANGED <<recVars, fetchVars, taskVars, storeVars, starsVars, compareVars, tierVars,
                   patternVars, scrapeAllVars, queueVars>>

\* job_repo.update_job_status(job_id, "in_progress", message, percentage)
AnnounceStep ==
    /\ job_pc \in Announced \ {"init"}
    /\ job_phase = "announce"
    /\ job' = update_job_status(job, "in_progress", Checkpoint(job_pc).message,
                                Checkpoint(job_pc).pct, NoText, clock + 1)
    /\ clock' = clock + 1
    /\ job_phase' = "call"
    /\ UNCHANGED <<profile_status, job_pc, raised_in, table_rows, rows_before,
                   recVars, fetchVars, taskVars, storeVars,
                   starsVars, compareVars, tierVars, patternVars,
                   scrapeAllVars, queueVars>>

\* one of the six extractors runs and returns
ScrapeStep ==
    /\ job_pc \in SourceSet
    /\ job_phase = "call"
    /\ StepReturns
    /\ CASE job_pc = "films" ->
              /\ \E films \in ListsOf(FilmRecords) :
                    /\ DatedOnce(films)
                    /\ films_data' = films
              /\ UNCHANGED <<diary_entries, reviews_data>>
         [] job_pc = "diary" ->
              /\ \E entries \in ListsOf(DiaryRecords) :
                    /\ Len(films_data) + Len(entries) <= MaxScraped
                    /\ diary_entries' = entries
              /\ UNCHANGED <<films_data, reviews_data>>
         [] job_pc = "reviews" ->
              /\ \E reviews \in ListsOf(ReviewRecords) :
                    /\ Len(films_data) + Len(diary_entries) + Len(reviews)
                          <= MaxScraped
                    /\ reviews_data' = reviews
              /\ UNCHANGED <<films_data, diary_entries>>
         [] OTHER -> UNCHANGED <<films_data, diary_entries, reviews_data>>
    /\ UNCHANGED <<all_ratings, all_likes, resolved, save_state, save_runs,
                   fetchVars, taskVars, storeVars, starsVars, compareVars,
                   tierVars, patternVars, scrapeAllVars, queueVars>>

\* scraper.save_all_data()
SaveStep ==
    /\ job_pc = "save"
    /\ job_phase = "call"
    /\ all_ratings' = saved.rows
    /\ resolved' = saved.entries
    /\ all_likes' = saved.likes
    /\ save_runs' = save_runs + 1
    /\ \E fault \in BOOLEAN :
          IF saved.state = "raised"
          THEN save_state' = "raised" /\ ExceptClause(UnboundLocalErrorText)
          ELSE IF fault
          THEN save_state' = "raised" /\ ExceptClause(OSErrorText)
          ELSE save_state' = "returned" /\ StepReturns
    /\ UNCHANGED <<films_data, diary_entries, reviews_data, fetchVars, taskVars, storeVars,
                   starsVars, compareVars, tierVars, patternVars,
                   scrapeAllVars, queueVars>>

\* analyzer.load_profile(scraper_output_dir, username), which re-raises
LoadStep ==
    /\ job_pc = "load"
    /\ job_phase = "call"
    /\ \E fault \in BOOLEAN :
          IF fault THEN ExceptClause(OSErrorText) ELSE StepReturns
    /\ UNCHANGED <<recVars, fetchVars, taskVars, storeVars, starsVars, compareVars, tierVars,
                   patternVars, scrapeAllVars, queueVars>>

\* profile_repo.update_profile(profile.id, avg_rating=..., total_reviews=...,
\* join_date=analyzer_profile.join_date, ...): the arguments are evaluated
\* first
\* first; when they all exist the profile is updated and the store block
\* follows: it deletes the profile's rows of both tables, each delete with
\* its commit, stores the new rows, copies the files and marks the job
\* completed
UpdateProfileStep ==
    /\ job_pc = "update_profile"
    /\ IF MissingAttribute # 0
       THEN ExceptClause(AttributeErrorText(AttributesRead[MissingAttribute]))
       ELSE \E fault \in BOOLEAN :
               IF fault
               THEN /\ Failed("store", OSErrorText)
                    /\ table_rows' = NoRows
                    /\ UNCHANGED rows_before
               ELSE /\ job' = update_job_status(job, "completed",
                                                "Scraping completed successfully!",
                                                100, NoText, clock + 1)
                    /\ clock' = clock + 1
                    /\ profile_status' = "completed"
                    /\ job_pc' = "done"
                    /\ job_phase' = "call"
                    /\ table_rows' =
                          [ratings |-> [i \in 1..Len(films_data) |->
                                           films_data[i].title],
                           reviews |-> [i \in 1..Len(reviews_data) |->
                                           reviews_data[i].title]]
                    /\ UNCHANGED <<raised_in, rows_before>>
    /\ UNCHANGED <<recVars, fetchVars, taskVars, storeVars, starsVars, compareVars, tierVars,
                   patternVars, scrapeAllVars, queueVars>>

\* the rows an earlier scrape of the profile may have stored
PriorRows == {NoRows, [ratings |-> <<"A">>, reviews |-> <<"A">>]}

\* scrape_profile has created the job
JobQueued ==
    /\ JobRow
    /\ table_rows \in PriorRows
    /\ rows_before = table_rows

InitJob == JobQueued /\ Idle("job")

NextJob ==
    \/ JobStart
    \/ InitScraper
    \/ AnnounceStep
    \/ ScrapeStep
    \/ SaveStep
    \/ LoadStep
    \/ UpdateProfileStep

SpecJob == InitJob /\ [][NextJob]_vars

-----------------------------------------------------------------------------
(* The load and store steps of run_scraping_task, taken from the files     *)
(* save_all_data wrote: load_profile reads them into frames, and the block *)
(* after the profile update replaces the profile's rows of the ratings     *)
(* table.  A row is kept by its title, its year and its is_liked flag.     *)

\* the rows of films_comprehensive.csv
films_comprehensive(films) ==
    [i \in 1..Len(films) |->
        [Title |-> films[i].title, Year |-> PyOr(films[i].year, EmptyStr)]]

\* pd.read_csv of a Year column: int64 when every cell holds a number,
\* float64 (with NaN for the empty cells) when one of them is empty
read_csv_dtype(rows) ==
    IF \E i \in 1..Len(rows) : rows[i].Year = EmptyStr
    THEN "float64" ELSE "int64"

\* "if movie_year and str(movie_year).isdigit()": str of a float64 cell is
\* '1995.0' or 'nan', which is not all digits
movie_year(cell, dtype) ==
    IF dtype = "int64" /\ Truthy(cell) THEN cell ELSE None

\* the rows the block makes of the primary dataset
ratings_data(frame, title_column) ==
    [i \in 1..Len(frame) |->
        [movie_title |-> frame[i][title_column],
         movie_year |-> movie_year(frame[i].Year, read_csv_dtype(frame)),
         is_liked |-> FALSE]]

\* the rows it makes of the likes frame
likes_data(frame) ==
    [i \in 1..Len(frame) |->
        [movie_title |-> frame[i].Name,
         movie_year |-> movie_year(frame[i].Year, read_csv_dtype(frame)),
         is_liked |-> TRUE]]

\* a choice that takes the ratings frame before all_films
primary_dataset_ratings_first(profile) ==
    IF profile.ratings # <<>> THEN ratings_data(profile.ratings, "Name")
    ELSE ratings_data(profile.all_films, "Title")

\* the rows of primary_dataset: all_films when it is not empty, else the
\* ratings frame when it is not empty, else none
primary_dataset(profile) ==
    IF profile.all_films # <<>> THEN ratings_data(profile.all_films, "Title")
    ELSE IF profile.ratings # <<>> THEN ratings_data(profile.ratings, "Name")
    ELSE <<>>

\* analyzer.load_profile after a save_all_data that returned
load_profile ==
    /\ store_pc = "saving"
    /\ save_state = "returned"
    /\ analyzer_profile' =
          [all_films |-> films_comprehensive(films_data),
           ratings |-> all_ratings,
           likes |-> all_likes]
    /\ store_pc' = "loaded"
    /\ UNCHANGED <<stored_ratings, recVars, fetchVars, taskVars, jobVars, starsVars,
                   compareVars, tierVars, patternVars, scrapeAllVars,
                   queueVars>>

\* "Store ratings and reviews data (clear old data first)": all_films is the
\* primary dataset, the ratings frame when all_films is empty; the likes
\* frame is stored in addition
StoreRatings ==
    /\ store_pc = "loaded"
    /\ stored_ratings' =
          primary_dataset(analyzer_profile) \o likes_data(analyzer_profile.likes)
    /\ store_pc' = "stored"
    /\ UNCHANGED <<analyzer_profile, recVars, fetchVars, taskVars, jobVars, starsVars,
                   compareVars, tierVars, patternVars, scrapeAllVars,
                   queueVars>>

InitStore == StoreIdle /\ Idle("store")

NextStore ==
    \/ ScrapedFilm
    \/ ScrapedDiaryEntry
    \/ ScrapedReview
    \/ save_all_data
    \/ load_profile
    \/ StoreRatings

SpecStore == InitStore /\ [][NextStore]_vars

-----------------------------------------------------------------------------
(* Claims about the extractors *)

Last(seq) == seq[Len(seq)]

InLoopOrReturned == task_pc \in Paginated /\ extractor_pc \in {"loop", "returned"}

\* the pages were requested in order, from page 1, and the loop stands at
\* the page after the last one it went on from
RequestedInOrder ==
    /\ \A i \in 1..Len(requested) : requested[i].page = i
    /\ extractor_pc = "loop" => page_num = Len(requested) + 1
    /\ extractor_pc = "returned" => (page_num = Len(requested) /\ requested # <<>>)

\* a page whose fetch failed, that yields zero records, or has no next link
YieldsNothingOrLast(p) == ~p.fetched \/ p.kept = 0 \/ ~p.next

\* a page whose fetch failed, that holds no entry elements (for the films:
\* adds no new film), or has no next link
HoldsNothingOrLast(source, p) ==
    \/ ~p.fetched
    \/ IF source = "films" THEN p.kept = 0 ELSE p.elements = 0
    \/ ~p.next

\* C6 as stated: a paginated extractor requests the pages in order and stops
\* at the first page whose fetch failed, that yields zero records, or that
\* has no next link; no page is requested after it
C6_StopsAtFirstPageWithoutRecords ==
    InLoopOrReturned =>
        /\ RequestedInOrder
        /\ \A i \in 1..Len(requested) :
              YieldsNothingOrLast(requested[i]) =>
                  (i = Len(requested) /\ extractor_pc = "returned")
        /\ extractor_pc = "returned" => YieldsNothingOrLast(Last(requested))

\* C6: a paginated extractor requests the pages in order and stops at the
\* first page whose fetch failed, that holds no entry elements (for the films:
\* adds no film that was not seen), or that has no next link; no page is
\* requested after it, and it does not stop at any other page
C6_StopsAtFirstPageWithoutElements ==
    InLoopOrReturned =>
        /\ RequestedInOrder
        /\ \A i \in 1..Len(requested) :
              HoldsNothingOrLast(task_pc, requested[i]) =>
                  (i = Len(requested) /\ extractor_pc = "returned")
        /\ extractor_pc = "returned" => HoldsNothingOrLast(task_pc, Last(requested))

\* the diary loop went on from a first page all of whose rows it skipped,
\* and stopped at the second
C6_Witness ==
    /\ task_pc = "diary"
    /\ extractor_pc = "returned"
    /\ Len(requested) = 2
    /\ requested[1].elements > 0
    /\ requested[1].kept = 0
    /\ requested[1].next
    /\ requested[2].fetched
    /\ requested[2].elements = 0

RECURSIVE KeptOn(_)
\* the number of records the requested pages yielded
KeptOn(pages) ==
    IF pages = <<>> THEN 0 ELSE Head(pages).kept + KeptOn(Tail(pages))

RECURSIVE EntriesOn(_)
\* the entries the requested pages yielded, in page order
EntriesOn(pages) ==
    IF pages = <<>> THEN <<>>
    ELSE EntriesOn(SubSeq(pages, 1, Len(pages) - 1))
            \o [i \in 1..Last(pages).kept |-> <<Last(pages).page, i>>]

ReturnedOnFailure ==
    /\ task_pc \in SourceSet
    /\ extractor_pc = "returned"
    /\ ~Last(requested).fetched

\* C7: a fetch that fails on page N of a source ends that extractor only: it
\* returns the records of the pages 1..N-1 (none when N = 1), nothing is
\* raised to run_scraping_task, and the sources after it are still scraped
C7_FailureContained ==
    /\ task_pc # "failed"
    /\ ReturnedOnFailure =>
          /\ Len(records) = KeptOn(SubSeq(requested, 1, Len(requested) - 1))
          /\ task_pc = "films" => films_data = records
          /\ task_pc # "films" =>
                records = EntriesOn(SubSeq(requested, 1, Len(requested) - 1))
          /\ Len(requested) = 1 => records = <<>>
    /\ first_failure # "none" =>
          /\ task_pc \in SourceSet \cup {"scraped"}
          /\ \A k \in 1..Len(scraped) : scraped[k] = Sources[k]
    /\ task_pc = "scraped" => scraped = Sources

\* the fetch of the second films page failed, the film of the first page was
\* kept, and the five sources after the films were scraped
C7_Witness ==
    /\ task_pc = "scraped"
    /\ first_failure = "films"
    /\ films_data # <<>>
    /\ scraped = Sources

FilmsReturned ==
    \/ task_pc = "films" /\ extractor_pc = "returned"
    \/ \E k \in 1..Len(scraped) : scraped[k] = "films"

SameFilmKey(a, b) == a.title = b.title /\ a.year = b.year

\* C8 as stated: after scrape_all_films, no two records of films_data have
\* the same (title, year), whether or not the year is known
C8_FilmKeyUnique ==
    FilmsReturned =>
        \A i, j \in 1..Len(films_data) :
            i < j => ~SameFilmKey(films_data[i], films_data[j])

\* C8: after scrape_all_films, no two records of films_data that have a year
\* have the same (title, year); records without a year carry a movie_id made
\* from the time and are not told apart by their title
C8_DatedFilmKeyUnique ==
    FilmsReturned =>
        \A i, j \in 1..Len(films_data) :
            (i < j /\ Truthy(films_data[i].year))
                => ~SameFilmKey(films_data[i], films_data[j])

\* a page held the same film with its year twice, and films_data has it once
C8_Witness ==
    /\ task_pc = "films"
    /\ extractor_pc = "returned"
    /\ Len(requested) = 1
    /\ requested[1].elements = 2
    /\ requested[1].dups = 1
    /\ Len(films_data) = 1
    /\ Truthy(films_data[1].year)

-----------------------------------------------------------------------------
(* Claims about the scraping job *)

\* the steps that set up the scraper, scrape, save, load and store
ScrapeLoadStoreSteps ==
    {"init", "profile", "films", "diary", "reviews", "watchlist", "lists",
     "save", "load", "store"}

\* C11: a job that run_scraping_task starts leaves "queued" for
\* "in_progress" and ends in one terminal status: "completed" with progress
\* 100 when no scrape, save, load or store step raised, "failed" with an
\* error message when a step raised
C11_JobOutcome ==
    /\ job_pc \notin {"queued", "done"} => job.status = "in_progress"
    /\ job_pc = "done" =>
          /\ job.status \in {"completed", "failed"}
          /\ raised_in \notin ScrapeLoadStoreSteps =>
                (job.status = "completed" /\ job.progress_percentage = 100)
          /\ raised_in \in ScrapeLoadStoreSteps =>
                (job.status = "failed" /\ job.error_message \notin {NoText, ""})

\* whatever step raised, the job ends "failed" with the exception's text
JobEndsFailed ==
    job_pc = "done" =>
        /\ job.status = "failed"
        /\ job.error_message \notin {NoText, ""}
        /\ job.progress_percentage = 0
        /\ raised_in # "none"

SameStoredFilm(a, b) ==
    a.movie_title = b.movie_title /\ a.movie_year = b.movie_year

LikedFilmStoredTwice ==
    /\ store_pc = "stored"
    /\ Len(films_data) = 1
    /\ Truthy(films_data[1].year)
    /\ Len(stored_ratings) = 2
    /\ SameStoredFilm(stored_ratings[1], stored_ratings[2])
    /\ ~stored_ratings[1].is_liked
    /\ stored_ratings[2].is_liked

-----------------------------------------------------------------------------
(* Claims about save_all_data *)

SaveRan == save_state # "not_run"

HasKey(rec, key) == rec.title # "" /\ LookupKey(rec.title, rec.year) = key

\* the index of the last entry with a title and the given key, 0 if none
LastWithKey(entries, key) ==
    LET S == {i \in 1..Len(entries) : HasKey(entries[i], key)}
    IN IF S = {} THEN 0 ELSE CHOOSE i \in S : \A j \in S : j <= i

\* the rating the priority rule gives a film: its own, else the diary's,
\* else the review's, else none ('')
ExpectedRating(film) ==
    LET key == LookupKey(film.title, film.year)
        d == LastWithKey(diary_entries, key)
        r == LastWithKey(reviews_data, key)
    IN IF Truthy(film.rating) THEN film.rating
       ELSE IF d # 0 /\ Truthy(diary_entries[d].rating) THEN diary_entries[d].rating
       ELSE IF r # 0 /\ Truthy(reviews_data[r].rating) THEN reviews_data[r].rating
       ELSE EmptyStr

RatingPresent(rating_entry) == rating_entry.Rating \notin {None, EmptyStr, 0}

\* C2: once save_all_data has run, the ratings subset is exactly the films
\* whose resolved rating is present, in the order of films_data: no row has
\* an empty rating and no film with a resolved rating is left out.
C2_RatingSubset ==
    SaveRan => all_ratings = SelectSeq(resolved, RatingPresent)

\* one film made it into the ratings subset and another one did not
C2_Witness ==
    /\ SaveRan
    /\ Len(resolved) = 2
    /\ Len(all_ratings) = 1
    /\ \E i \in 1..2 : ~RatingPresent(resolved[i])

\* C3: every row of the ratings subset has the title and year of a film of
\* films_data; diary entries and reviews add no row of their own.
C3_UniversalSetContainment ==
    SaveRan =>
        \A j \in 1..Len(all_ratings) :
            \E i \in 1..Len(films_data) :
                /\ films_data[i].title = all_ratings[j].Name
                /\ PyOr(films_data[i].year, EmptyStr) = all_ratings[j].Year

\* a rated diary entry whose key no film has, beside a film that is rated
C3_Witness ==
    /\ SaveRan
    /\ all_ratings # <<>>
    /\ \E d \in 1..Len(diary_entries) :
          /\ diary_entries[d].title # ""
          /\ Truthy(diary_entries[d].rating)
          /\ \A i \in 1..Len(films_data) :
                ~HasKey(films_data[i],
                        LookupKey(diary_entries[d].title, diary_entries[d].year))

\* C4: save_all_data completes without raising for every combination of
\* empty and non-empty films_data, diary_entries and reviews_data.
C4_SaveNeverRaises == save_state # "raised"

FilmKeys == {LookupKey(t, y) : t \in (FilmTitles \cup EntryTitles) \ {""}, y \in Years}

FlaggedLiked(key) ==
    \/ \E i \in 1..Len(films_data) :
          HasKey(films_data[i], key) /\ films_data[i].is_liked
    \/ \E d \in 1..Len(diary_entries) :
          HasKey(diary_entries[d], key) /\ diary_entries[d].is_liked

LikesOf(key) ==
    {j \in 1..Len(all_likes) : LookupKey(all_likes[j].Name, all_likes[j].Year) = key}

LikesRule ==
    \A key \in FilmKeys :
        Cardinality(LikesOf(key)) = IF FlaggedLiked(key) THEN 1 ELSE 0

\* C9: once save_all_data has run, a FilmKey is in the likes set exactly
\* when a film or a diary entry with that key is flagged liked, and it is
\* there once.
C9_LikesSet == SaveRan => LikesRule

\* the likes rule on the runs of save_all_data that return
LikesSetWhenReturned == save_state = "returned" => LikesRule

\* C10: a run of save_all_data leaves films_data, diary_entries and
\* reviews_data as they are, and a second run on the same inputs ends with the
\* same ratings subset, the same likes set (same rows, same order) and the
\* same outcome as the first.
C10_Idempotence ==
    [][save_runs' # save_runs =>
          /\ films_data' = films_data
          /\ diary_entries' = diary_entries
          /\ reviews_data' = reviews_data
          /\ save_runs >= 1 =>
                /\ all_ratings' = all_ratings
                /\ all_likes' = all_likes
                /\ resolved' = resolved
                /\ save_state' = save_state]_vars

\* a second run that rebuilt a non-empty ratings subset and likes set
C10_Witness ==
    /\ save_runs = 2
    /\ all_ratings # <<>>
    /\ all_likes # <<>>

-----------------------------------------------------------------------------
(* The comparison of two profiles: find_common_movies and                  *)
(* calculate_compatibility of UnifiedLetterboxdAnalyzer.  A ratings frame  *)
(* is the sequence of its rows; a rating and a difference of ratings are   *)
(* numbers of half stars (4 stars = 8); a missing Year (NaN) is None.  An  *)
(* entry of the merge also carries the positions of the two rows it was    *)
(* made of (left, right), which the program does not keep.                 *)

\* rows the two ratings frames hold at most, together
MaxRatings == 4

\* the rows a ratings frame may hold: a film rated 2, 4 or 5 stars, a film
\* rated 2 or 4.5 stars, and a film without a year that has the title of the
\* second
RatingRows ==
    [Name : {"Heat"}, Year : {1995}, Rating : {4, 8, 10}]
    \cup [Name : {"Up"}, Year : {2009}, Rating : {4, 9}]
    \cup [Name : {"Up"}, Year : {None}, Rating : {9}]

Frames(n) == UNION {[1..k -> RatingRows] : k \in 0..n}

\* a join on the title alone
same_name(row1, row2) == row1.Name = row2.Name

\* on=['Name', 'Year']: pd.merge takes two missing years as equal
same_key(row1, row2) == row1.Name = row2.Name /\ row1.Year = row2.Year

RECURSIVE merge(_, _, _, _)
\* pd.merge(left, right, on=['Name', 'Year']), an inner join: a row for each
\* pair of a left row and a right row with the same key, in the order of
\* the left rows
merge(left, right, i, j) ==
    IF i > Len(left) THEN <<>>
    ELSE IF j > Len(right) THEN merge(left, right, i + 1, 1)
    ELSE (IF same_key(left[i], right[j])
          THEN <<[Name |-> left[i].Name, Year |-> left[i].Year,
                  Rating_1 |-> left[i].Rating, Rating_2 |-> right[j].Rating,
                  left |-> i, right |-> j]>>
          ELSE <<>>) \o merge(left, right, i, j + 1)

abs(x) == IF x < 0 THEN 0 - x ELSE x

\* a difference that keeps its sign
signed_difference(rating1, rating2) == rating1 - rating2

\* abs(rating1 - rating2)
rating_difference(rating1, rating2) == abs(rating1 - rating2)

\* a test that takes a difference of 2 stars for no disagreement
is_disagreement_above(difference) == difference > 4

\* abs(rating1 - rating2) >= 2
is_disagreement(difference) == difference >= 4

\* the dict find_common_movies appends for one row of the merge
common_entry(row) ==
    [movie |-> row.Name,
     year |-> row.Year,
     rating_1 |-> row.Rating_1,
     rating_2 |-> row.Rating_2,
     difference |-> rating_difference(row.Rating_1, row.Rating_2),
     both_loved |-> row.Rating_1 >= 8 /\ row.Rating_2 >= 8,
     both_hated |-> row.Rating_1 <= 4 /\ row.Rating_2 <= 4,
     disagreement |-> is_disagreement(rating_difference(row.Rating_1, row.Rating_2)),
     left |-> row.left,
     right |-> row.right]

RECURSIVE insert(_, _)
\* where a stable sort puts an entry: behind the entries that are not larger
insert(list, entry) ==
    IF list = <<>> THEN <<entry>>
    ELSE IF Head(list).difference <= entry.difference
    THEN <<Head(list)>> \o insert(Tail(list), entry)
    ELSE <<entry>> \o list

\* a function that returns the list in the order of the merge
unsorted(list) == list

RECURSIVE sorted(_)
\* sorted(common_list, key=lambda x: x['difference'])
sorted(list) ==
    IF list = <<>> THEN <<>>
    ELSE insert(sorted(SubSeq(list, 1, Len(list) - 1)), list[Len(list)])

find_common_movies(frame1, frame2) ==
    IF frame1 = <<>> \/ frame2 = <<>> THEN <<>>
    ELSE LET common == merge(frame1, frame2, 1, 1)
         IN sorted([k \in 1..Len(common) |-> common_entry(common[k])])

\* A metric is a fraction num / den in lowest terms, den > 0.
RECURSIVE GCD(_, _)
GCD(a, b) == IF b = 0 THEN a ELSE GCD(b, a % b)

Frac(n, d) ==
    LET g == GCD(abs(n), d)
    IN [num |-> n \div g, den |-> d \div g]

Plus(x, y) == Frac(x.num * y.den + y.num * x.den, x.den * y.den)

Minus(x, y) == Frac(x.num * y.den - y.num * x.den, x.den * y.den)

Times(x, y) == Frac(x.num * y.num, x.den * y.den)

AbsOf(x) == [num |-> abs(x.num), den |-> x.den]

AtLeast(x, y) == x.num * y.den >= y.num * x.den

\* max(0, x)
max0(x) == IF x.num < 0 THEN Frac(0, 1) ELSE x

RECURSIVE total(_)
\* the sum of a list of fractions
total(list) ==
    IF list = <<>> THEN Frac(0, 1) ELSE Plus(Head(list), total(Tail(list)))

\* np.mean of a non-empty list
mean(list) == Times(total(list), Frac(1, Len(list)))

\* a number of half stars, in stars
stars(half_stars) == Frac(half_stars, 2)

\* max(0, (5 - difference) / 5)
closeness(difference) ==
    max0(Times(Minus(Frac(5, 1), difference), Frac(1, 5)))

how_many(list, Test(_)) == Cardinality({k \in 1..Len(list) : Test(list[k])})

RECURSIVE listed(_)
\* the members of a set as a list
listed(S) ==
    IF S = {} THEN <<>>
    ELSE LET x == CHOOSE y \in S : TRUE IN <<x>> \o listed(S \ {x})

\* a score taken from the first common film alone
agreement_of_first(common) == closeness(stars(common[1].difference))

\* agreement_score = max(0, (5 - avg_difference) / 5)
agreement_score(common) ==
    closeness(mean([k \in 1..Len(common) |-> stars(common[k].difference)]))

\* compatibility['rating_agreement']
rating_agreement(common) ==
    IF common # <<>>
    THEN [score |-> agreement_score(common),
          avg_difference |->
             mean([k \in 1..Len(common) |-> stars(common[k].difference)]),
          both_loved_count |-> how_many(common, LAMBDA m : m.both_loved),
          both_hated_count |-> how_many(common, LAMBDA m : m.both_hated),
          major_disagreements |-> how_many(common, LAMBDA m : m.disagreement),
          common_movies_count |-> Len(common)]
    ELSE [score |-> Frac(0, 1), common_movies_count |-> 0]

\* patterns['rating_distribution']: how many rows have each rating
rating_distribution(frame) ==
    [r \in {frame[k].Rating : k \in 1..Len(frame)} |->
        how_many(frame, LAMBDA row : row.Rating = r)]

\* "Pattern similarity (simplified)"
pattern_similarity(frame1, frame2) ==
    LET dist1 == rating_distribution(frame1)
        dist2 == rating_distribution(frame2)
        common_ratings == listed(DOMAIN dist1 \cap DOMAIN dist2)
        correlations ==
            [k \in 1..Len(common_ratings) |->
                Minus(Frac(1, 1),
                      AbsOf(Minus(Frac(dist1[common_ratings[k]], Len(frame1)),
                                  Frac(dist2[common_ratings[k]], Len(frame2)))))]
    IN IF frame1 # <<>> /\ frame2 # <<>> /\ common_ratings # <<>>
       THEN mean(correlations)
       ELSE Frac(1, 2)

\* the genres whose keywords the lower-case title contains: 'heat' is a
\* keyword of crime, and no keyword is part of 'up'
genres_of(title) == IF title = "Heat" THEN {"crime"} ELSE {}

\* analyze_genre_preferences: avg_rating of each genre that has a film
genre_analysis(frame) ==
    LET found == UNION {genres_of(frame[k].Name) : k \in 1..Len(frame)}
        of_genre(g) == SelectSeq(frame, LAMBDA row : g \in genres_of(row.Name))
    IN [g \in found |->
           mean([k \in 1..Len(of_genre(g)) |-> stars(of_genre(g)[k].Rating)])]

\* "Genre compatibility"
genre_compatibility(frame1, frame2) ==
    LET genres1 == genre_analysis(frame1)
        genres2 == genre_analysis(frame2)
        common_genres == listed(DOMAIN genres1 \cap DOMAIN genres2)
    IN IF common_genres # <<>>
       THEN mean([k \in 1..Len(common_genres) |->
                     closeness(AbsOf(Minus(genres1[common_genres[k]],
                                           genres2[common_genres[k]])))])
       ELSE Frac(0, 1)

\* harsh_critic_ratio and generous_rater_ratio, 0 without a rating
ratio(frame, Test(_)) ==
    IF frame = <<>> THEN Frac(0, 1)
    ELSE Frac(how_many(frame, Test), Len(frame))

\* a chain of branches that a ratio at its threshold matches too
classify_inclusive(harsh_ratio, generous_ratio, engagement) ==
    IF AtLeast(harsh_ratio, Frac(1, 4)) THEN "discerning_critic"
    ELSE IF AtLeast(generous_ratio, Frac(2, 5)) THEN "enthusiastic_fan"
    ELSE IF AtLeast(engagement, Frac(1, 2)) THEN "thoughtful_reviewer"
    ELSE "casual_viewer"

\* the if / elif chain of generate_personality_profile
classify(harsh_ratio, generous_ratio, engagement) ==
    IF ~AtLeast(Frac(1, 4), harsh_ratio) THEN "discerning_critic"
    ELSE IF ~AtLeast(Frac(2, 5), generous_ratio) THEN "enthusiastic_fan"
    ELSE IF ~AtLeast(Frac(1, 2), engagement) THEN "thoughtful_reviewer"
    ELSE "casual_viewer"

\* generate_personality_profile(profile)['type'], for a profile whose
\* review_engagement_score is above 0.5 or not
personality_type(frame, is_engaged) ==
    classify(ratio(frame, LAMBDA row : row.Rating <= 4),
             ratio(frame, LAMBDA row : row.Rating >= 8),
             IF is_engaged THEN Frac(1, 1) ELSE Frac(0, 1))

\* a test that finds every word in every type
has_word_always(type, word) == TRUE

\* a match that does not look at the types
personality_match_base(type1, type2) == Frac(1, 2)

\* 'critic' in type, 'fan' in type
has_word(type, word) ==
    \/ word = "critic" /\ type = "discerning_critic"
    \/ word = "fan" /\ type = "enthusiastic_fan"

\* "Personality compatibility"
personality_match(type1, type2) ==
    IF type1 = type2 THEN Frac(9, 10)
    ELSE IF \/ has_word(type1, "critic") /\ has_word(type2, "critic")
            \/ has_word(type1, "fan") /\ has_word(type2, "fan")
    THEN Frac(7, 10)
    ELSE Frac(1, 2)

\* tiers whose lower bounds are exclusive
get_recommendation_exclusive(x) ==
    IF ~AtLeast(Frac(4, 5), x) THEN "perfect"
    ELSE IF ~AtLeast(Frac(13, 20), x) THEN "great"
    ELSE IF ~AtLeast(Frac(9, 20), x) THEN "good"
    ELSE IF ~AtLeast(Frac(1, 4), x) THEN "different"
    ELSE "very_different"

\* _get_recommendation: the text of the tier, by a name for it
get_recommendation(x) ==
    IF AtLeast(x, Frac(4, 5)) THEN "perfect"
    ELSE IF AtLeast(x, Frac(13, 20)) THEN "great"
    ELSE IF AtLeast(x, Frac(9, 20)) THEN "good"
    ELSE IF AtLeast(x, Frac(1, 4)) THEN "different"
    ELSE "very_different"

\* the weights dict, in its order
Metrics ==
    <<"rating_agreement", "pattern_similarity", "genre_compatibility",
      "personality_match">>

\* weights that are shared out again when there is no common film
weights_renormalized(metric, result) ==
    IF result.rating_agreement.common_movies_count = 0
    THEN CASE metric = "rating_agreement" -> Frac(0, 1)
           [] metric = "pattern_similarity" -> Frac(25, 65)
           [] metric = "genre_compatibility" -> Frac(20, 65)
           [] metric = "personality_match" -> Frac(20, 65)
    ELSE CASE metric = "rating_agreement" -> Frac(35, 100)
           [] metric = "pattern_similarity" -> Frac(25, 100)
           [] metric = "genre_compatibility" -> Frac(20, 100)
           [] metric = "personality_match" -> Frac(20, 100)

weights(metric, result) ==
    CASE metric = "rating_agreement" -> Frac(35, 100)
      [] metric = "pattern_similarity" -> Frac(25, 100)
      [] metric = "genre_compatibility" -> Frac(20, 100)
      [] metric = "personality_match" -> Frac(20, 100)

\* "Overall score": the loop over the weights
overall_score(result) ==
    total([k \in 1..Len(Metrics) |->
             Times(IF Metrics[k] = "rating_agreement"
                   THEN result.rating_agreement.score
                   ELSE result[Metrics[k]],
                   weights(Metrics[k], result))])

calculate_compatibility(frame1, frame2, is_engaged) ==
    LET common == find_common_movies(frame1, frame2)
        result ==
            [rating_agreement |-> rating_agreement(common),
             pattern_similarity |-> pattern_similarity(frame1, frame2),
             genre_compatibility |-> genre_compatibility(frame1, frame2),
             personality_match |->
                personality_match(personality_type(frame1, is_engaged[1]),
                                  personality_type(frame2, is_engaged[2]))]
    IN [rating_agreement |-> result.rating_agreement,
        pattern_similarity |-> result.pattern_similarity,
        genre_compatibility |-> result.genre_compatibility,
        personality_match |-> result.personality_match,
        overall_score |-> overall_score(result),
        recommendation |-> get_recommendation(overall_score(result))]

\* two profiles are loaded
ProfilesLoaded ==
    /\ ratings_1 \in Frames(MaxRatings)
    /\ ratings_2 \in Frames(MaxRatings - Len(ratings_1))
    /\ engaged = <<FALSE, FALSE>>
    /\ common_movies = <<>>
    /\ compatibility = <<>>
    /\ compare_pc = "loaded"

\* common_movies = analyzer.find_common_movies(profiles[0], profiles[1])
FindCommonMovies ==
    /\ compare_pc = "loaded"
    /\ common_movies' = find_common_movies(ratings_1, ratings_2)
    /\ compare_pc' = "found"
    /\ UNCHANGED <<ratings_1, ratings_2, engaged, compatibility, recVars,
                   fetchVars, taskVars, jobVars, storeVars, starsVars, tierVars,
                   patternVars, scrapeAllVars, queueVars>>

\* compatibility = analyzer.calculate_compatibility(profiles[0], profiles[1]);
\* whether a profile's reviews are long enough to count as engagement is
\* read here
CalculateCompatibility ==
    /\ compare_pc = "found"
    /\ \E is_engaged \in BOOLEAN \X BOOLEAN :
          /\ engaged' = is_engaged
          /\ compatibility' =
                calculate_compatibility(ratings_1, ratings_2, is_engaged)
    /\ compare_pc' = "calculated"
    /\ UNCHANGED <<ratings_1, ratings_2, common_movies, recVars, fetchVars,
                   taskVars, jobVars, storeVars, starsVars, tierVars,
                   patternVars, scrapeAllVars, queueVars>>

InitCompare == ProfilesLoaded /\ Idle("compare")

NextCompare == FindCommonMovies \/ CalculateCompatibility

SpecCompare == InitCompare /\ [][NextCompare]_vars

-----------------------------------------------------------------------------
(* Claims about the comparison *)

Found == compare_pc \in {"found", "calculated"}

Calculated == compare_pc = "calculated"

\* the pairs of a row of profile1 and a row of profile2 that are the same film
CommonPairs ==
    {p \in (1..Len(ratings_1)) \X (1..Len(ratings_2)) :
        /\ ratings_1[p[1]].Name = ratings_2[p[2]].Name
        /\ ratings_1[p[1]].Year = ratings_2[p[2]].Year}

PairOf(entry) == <<entry.left, entry.right>>

\* C15: find_common_movies returns one entry for each pair of rows, one of
\* each ratings subset, with equal (Name, Year), and no other entry; it
\* returns the empty list when a ratings subset is empty
C15_CommonFilms ==
    Found =>
        /\ {PairOf(common_movies[k]) : k \in 1..Len(common_movies)} = CommonPairs
        /\ Len(common_movies) = Cardinality(CommonPairs)
        /\ \A k \in 1..Len(common_movies) :
              LET m == common_movies[k]
              IN /\ m.movie = ratings_1[m.left].Name
                 /\ m.year = ratings_1[m.left].Year
                 /\ m.rating_1 = ratings_1[m.left].Rating
                 /\ m.rating_2 = ratings_2[m.right].Rating
        /\ (ratings_1 = <<>> \/ ratings_2 = <<>>) => common_movies = <<>>

\* one profile rated Up of 2009 and an Up without a year, the other the Up
\* without a year: that one is the only common film
C15_Witness ==
    /\ Found
    /\ Len(ratings_1) = 2
    /\ ratings_1[1].Year = 2009
    /\ ratings_1[2].Year = None
    /\ Len(ratings_2) = 1
    /\ ratings_2[1].Year = None
    /\ Len(common_movies) = 1
    /\ PairOf(common_movies[1]) = <<2, 1>>

\* C16: the list find_common_movies returns is in ascending order of
\* difference, so its first entry has the least difference
C16_CommonFilmsSorted ==
    Found =>
        /\ \A k \in 1..(Len(common_movies) - 1) :
              common_movies[k].difference <= common_movies[k + 1].difference
        /\ \A k \in 1..Len(common_movies) :
              common_movies[1].difference <= common_movies[k].difference

\* films that the merge gives with the differences 0, 2 and 1 stars are
\* returned in the order 0, 1, 2
C16_Witness ==
    /\ Found
    /\ Len(common_movies) = 3
    /\ [k \in 1..3 |-> common_movies[k].right] = <<1, 3, 2>>
    /\ [k \in 1..3 |-> common_movies[k].difference] = <<0, 2, 4>>

\* C17: for each common film, difference = |rating1 - rating2|, both_loved
\* iff both ratings are at least 4 stars, both_hated iff both are at most 2,
\* disagreement iff the difference is at least 2 stars; the counts of
\* rating_agreement are the numbers of common films with each flag
C17_AgreementFlags ==
    /\ Found =>
          \A k \in 1..Len(common_movies) :
              LET m == common_movies[k]
                  r1 == ratings_1[m.left].Rating
                  r2 == ratings_2[m.right].Rating
              IN /\ m.difference = (IF r1 >= r2 THEN r1 - r2 ELSE r2 - r1)
                 /\ m.both_loved <=> (r1 >= 8 /\ r2 >= 8)
                 /\ m.both_hated <=> (r1 <= 4 /\ r2 <= 4)
                 /\ m.disagreement <=> m.difference >= 4
    /\ (Calculated /\ common_movies # <<>>) =>
          LET ra == compatibility.rating_agreement
              Flagged(flag) ==
                  Cardinality({k \in 1..Len(common_movies) :
                                  common_movies[k][flag]})
          IN /\ ra.common_movies_count = Len(common_movies)
             /\ ra.both_loved_count = Flagged("both_loved")
             /\ ra.both_hated_count = Flagged("both_hated")
             /\ ra.major_disagreements = Flagged("disagreement")

\* A = {Heat 1995: 5, Up 2009: 4.5} and B = {Heat 1995: 5, Up 2009: 2}: two
\* common films, average difference 1.25, one film both loved, one major
\* disagreement
C17_Witness ==
    /\ Calculated
    /\ ratings_1 = <<[Name |-> "Heat", Year |-> 1995, Rating |-> 10],
                     [Name |-> "Up", Year |-> 2009, Rating |-> 9]>>
    /\ ratings_2 = <<[Name |-> "Heat", Year |-> 1995, Rating |-> 10],
                     [Name |-> "Up", Year |-> 2009, Rating |-> 4]>>
    /\ compatibility.rating_agreement.common_movies_count = 2
    /\ compatibility.rating_agreement.avg_difference = [num |-> 5, den |-> 4]
    /\ compatibility.rating_agreement.both_loved_count = 1
    /\ compatibility.rating_agreement.both_hated_count = 0
    /\ compatibility.rating_agreement.major_disagreements = 1

\* C18: calculate_compatibility gives the same rating_agreement for (A, B)
\* and for (B, A)
C18_CompatibilitySymmetry ==
    Calculated =>
        calculate_compatibility(ratings_2, ratings_1,
                                <<engaged[2], engaged[1]>>).rating_agreement
            = compatibility.rating_agreement

\* two profiles with different rows and a common film rated differently
C18_Witness ==
    /\ Calculated
    /\ Len(ratings_1) # Len(ratings_2)
    /\ compatibility.rating_agreement.common_movies_count >= 2
    /\ compatibility.rating_agreement.major_disagreements >= 1

\* the mean difference of the common films, in stars, from the two frames
MeanDifference ==
    LET pairs == listed(CommonPairs)
        half_stars(p) ==
            LET r1 == ratings_1[p[1]].Rating
                r2 == ratings_2[p[2]].Rating
            IN IF r1 >= r2 THEN r1 - r2 ELSE r2 - r1
    IN Times(total([k \in 1..Len(pairs) |-> Frac(half_stars(pairs[k]), 2)]),
             Frac(1, Len(pairs)))

\* C19: overall_score = 0.35 x rating_agreement.score + 0.25 x
\* pattern_similarity + 0.20 x genre_compatibility + 0.20 x personality_match
\* with rating_agreement.score = max(0, (5 - mean difference) / 5); without a
\* common film the score is 0 and the other weights stay as they are
C19_OverallScore ==
    Calculated =>
        LET c == compatibility
            rest == Plus(Times(Frac(25, 100), c.pattern_similarity),
                         Plus(Times(Frac(20, 100), c.genre_compatibility),
                              Times(Frac(20, 100), c.personality_match)))
        IN /\ c.overall_score =
                 Plus(Times(Frac(35, 100), c.rating_agreement.score), rest)
           /\ CommonPairs # {} =>
                 c.rating_agreement.score =
                    max0(Times(Minus(Frac(5, 1), MeanDifference), Frac(1, 5)))
           /\ CommonPairs = {} =>
                 /\ c.rating_agreement.score = Frac(0, 1)
                 /\ c.rating_agreement.common_movies_count = 0
                 /\ c.overall_score = rest

\* one profile without a rating, the other with one: no common film, a score
\* of 0, and 0.25 x 0.5 + 0.20 x 0 + 0.20 x 0.5 = 0.225 overall
C19_Witness ==
    /\ Calculated
    /\ ratings_1 = <<>>
    /\ ratings_2 # <<>>
    /\ common_movies = <<>>
    /\ compatibility.rating_agreement.score = [num |-> 0, den |-> 1]
    /\ compatibility.overall_score = [num |-> 9, den |-> 40]

-----------------------------------------------------------------------------
(* _get_recommendation *)

\* the scores are the multiples of 1 / ScoreSteps from 0 to 1
ScoreSteps == 100

Scores == {Frac(k, ScoreSteps) : k \in 0..ScoreSteps}

\* the tiers, from the lowest
Tiers == <<"very_different", "different", "good", "great", "perfect">>

\* calculate_compatibility calls _get_recommendation(overall)
TierCall ==
    /\ tier_pc = "returned"
    /\ \E x \in Scores : score' = x
    /\ tier_pc' = "call"
    /\ UNCHANGED <<recommendation, recVars, fetchVars, taskVars, jobVars,
                   storeVars, starsVars, compareVars, patternVars,
                   scrapeAllVars, queueVars>>

\* _get_recommendation(score) returns
TierReturn ==
    /\ tier_pc = "call"
    /\ recommendation' = get_recommendation(score)
    /\ tier_pc' = "returned"
    /\ UNCHANGED <<score, recVars, fetchVars, taskVars, jobVars,
                   storeVars, starsVars, compareVars, patternVars,
                   scrapeAllVars, queueVars>>

InitTier == TierIdle /\ Idle("tier")

NextTier == TierCall \/ TierReturn

SpecTier == InitTier /\ [][NextTier]_vars

Rank(tier) == CHOOSE k \in 1..Len(Tiers) : Tiers[k] = tier

TierReturned == tier_pc = "returned" /\ recommendation # "none"

\* C20: _get_recommendation gives every score one of five tiers: perfect
\* from 0.8, great from 0.65 to below 0.8, good from 0.45, different from
\* 0.25, each lower bound included, and very different below 0.25; a higher
\* score never has a lower tier
C20_RecommendationTiers ==
    TierReturned =>
        LET from(bound) == AtLeast(score, bound)
        IN /\ \E k \in 1..Len(Tiers) : recommendation = Tiers[k]
           /\ recommendation = "perfect" <=> from(Frac(80, 100))
           /\ recommendation = "great" <=>
                 from(Frac(65, 100)) /\ ~from(Frac(80, 100))
           /\ recommendation = "good" <=>
                 from(Frac(45, 100)) /\ ~from(Frac(65, 100))
           /\ recommendation = "different" <=>
                 from(Frac(25, 100)) /\ ~from(Frac(45, 100))
           /\ recommendation = "very_different" <=> ~from(Frac(25, 100))
           /\ \A lower \in Scores :
                 AtLeast(score, lower) =>
                    Rank(get_recommendation(lower)) <= Rank(recommendation)

\* a score of exactly 0.8 has the perfect tier
C20_Witness ==
    /\ TierReturned
    /\ score = Frac(80, 100)
    /\ recommendation = "perfect"

-----------------------------------------------------------------------------
(* extract_viewing_patterns and generate_personality_profile of one profile *)

MaxProfileRatings == 5

MaxReviews == 2

\* ratings of 2, 3 and 4 stars
ProfileRows == [Name : {"Up"}, Year : {2009}, Rating : {4, 6, 8}]

\* reviews of 250, 300 and 600 characters
ReviewLengths == {250, 300, 600}

\* a dict without a key
NoKey == [key \in {} |-> Frac(0, 1)]

\* a test that takes every ratings frame for a non-empty one
ratings_empty_never(frame) == FALSE

\* profile.ratings.empty
ratings_empty(frame) == frame = <<>>

\* min(1.0, x)
min1(x) == IF AtLeast(x, Frac(1, 1)) THEN Frac(1, 1) ELSE x

\* the keys that the ratings block sets, of which the model keeps the
\* distribution and the two ratios
RatingStatistics ==
    {"rating_distribution", "harsh_critic_ratio", "generous_rater_ratio"}

\* "Rating distribution and preferences": idxmax of an empty distribution
\* raises ValueError
rating_statistics(frame) ==
    IF frame = <<>> THEN [raised |-> TRUE, dict |-> NoKey]
    ELSE [raised |-> FALSE,
          dict |->
             ("rating_distribution" :> rating_distribution(frame))
             @@ ("harsh_critic_ratio" :>
                    Frac(how_many(frame, LAMBDA row : row.Rating <= 4),
                         Len(frame)))
             @@ ("generous_rater_ratio" :>
                    Frac(how_many(frame, LAMBDA row : row.Rating >= 8),
                         Len(frame)))]

\* "Review analysis", of which the model keeps review_engagement_score
review_statistics(lengths) ==
    IF lengths # <<>>
    THEN "review_engagement_score" :>
            min1(Times(mean([k \in 1..Len(lengths) |-> Frac(lengths[k], 1)]),
                       Frac(1, 500)))
    ELSE NoKey

\* extract_viewing_patterns(profile): the patterns dict, or an exception
extract_viewing_patterns(frame, lengths) ==
    LET of_ratings ==
            IF ~ratings_empty(frame) THEN rating_statistics(frame)
            ELSE [raised |-> FALSE, dict |-> NoKey]
    IN IF of_ratings.raised THEN of_ratings
       ELSE [raised |-> FALSE,
             dict |-> of_ratings.dict @@ review_statistics(lengths)]

\* patterns.get(key, 0)
get(dict, key) == IF key \in DOMAIN dict THEN dict[key] ELSE Frac(0, 1)

\* generate_personality_profile(profile): its 'type', or an exception
generate_personality_profile(frame, lengths) ==
    LET extracted == extract_viewing_patterns(frame, lengths)
    IN IF extracted.raised THEN [raised |-> TRUE, type |-> "none"]
       ELSE [raised |-> FALSE,
             type |-> classify(get(extracted.dict, "harsh_critic_ratio"),
                               get(extracted.dict, "generous_rater_ratio"),
                               get(extracted.dict, "review_engagement_score"))]

\* a profile is loaded
ProfileLoaded ==
    /\ profile_ratings \in
          UNION {[1..n -> ProfileRows] : n \in 0..MaxProfileRatings}
    /\ review_lengths \in UNION {[1..n -> ReviewLengths] : n \in 0..MaxReviews}
    /\ patterns = [raised |-> FALSE, dict |-> <<>>]
    /\ personality = [raised |-> FALSE, type |-> "none"]
    /\ patterns_pc = "loaded"

\* patterns = self.extract_viewing_patterns(profile)
ExtractViewingPatterns ==
    /\ patterns_pc = "loaded"
    /\ patterns' = extract_viewing_patterns(profile_ratings, review_lengths)
    /\ patterns_pc' = "extracted"
    /\ UNCHANGED <<profile_ratings, review_lengths, personality, recVars,
                   fetchVars, taskVars, jobVars, storeVars, starsVars,
                   compareVars, tierVars, scrapeAllVars, queueVars>>

\* personality = self.generate_personality_profile(profile), reached when
\* extract_viewing_patterns has returned
GeneratePersonalityProfile ==
    /\ patterns_pc = "extracted"
    /\ ~patterns.raised
    /\ personality' =
          generate_personality_profile(profile_ratings, review_lengths)
    /\ patterns_pc' = "generated"
    /\ UNCHANGED <<profile_ratings, review_lengths, patterns, recVars,
                   fetchVars, taskVars, jobVars, storeVars, starsVars,
                   compareVars, tierVars, scrapeAllVars, queueVars>>

InitPatterns == ProfileLoaded /\ Idle("patterns")

NextPatterns == ExtractViewingPatterns \/ GeneratePersonalityProfile

SpecPatterns == InitPatterns /\ [][NextPatterns]_vars

Generated == patterns_pc = "generated"

\* the number of ratings of the profile that a test holds for
Rated(Test(_)) ==
    Cardinality({k \in 1..Len(profile_ratings) : Test(profile_ratings[k].Rating)})

Harsh == 4 * Rated(LAMBDA r : r <= 4) > Len(profile_ratings)

Generous == 5 * Rated(LAMBDA r : r >= 8) > 2 * Len(profile_ratings)

RECURSIVE Sum(_)
Sum(list) == IF list = <<>> THEN 0 ELSE Head(list) + Sum(Tail(list))

\* min(1, mean length / 500) > 0.5
Engaged ==
    /\ review_lengths # <<>>
    /\ Sum(review_lengths) > 250 * Len(review_lengths)

\* C21: generate_personality_profile returns discerning_critic when the
\* harsh ratio is above 0.25, else enthusiastic_fan when the generous ratio
\* is above 0.4, else thoughtful_reviewer when the review engagement is above
\* 0.5, else casual_viewer; a ratio at its threshold does not match
C21_PersonalityClassification ==
    Generated =>
        /\ ~personality.raised
        /\ personality.type =
              IF Harsh THEN "discerning_critic"
              ELSE IF Generous THEN "enthusiastic_fan"
              ELSE IF Engaged THEN "thoughtful_reviewer"
              ELSE "casual_viewer"

\* two ratings of five are harsh and three are generous: both ratios are
\* above their thresholds and the type is discerning_critic
C21_Witness ==
    /\ Generated
    /\ Len(profile_ratings) = 5
    /\ Rated(LAMBDA r : r <= 4) = 2
    /\ Rated(LAMBDA r : r >= 8) = 3
    /\ personality.type = "discerning_critic"

\* C23: for a profile without a rating, extract_viewing_patterns returns a
\* dict without a rating statistic and does not raise, and
\* generate_personality_profile returns a type and does not raise
C23_EmptyInputSafety ==
    (patterns_pc \in {"extracted", "generated"} /\ profile_ratings = <<>>) =>
        /\ ~patterns.raised
        /\ DOMAIN patterns.dict \cap RatingStatistics = {}
        /\ review_lengths = <<>> => DOMAIN patterns.dict = {}
        /\ Generated =>
              /\ ~personality.raised
              /\ personality.type \in {"thoughtful_reviewer", "casual_viewer"}

\* a profile without a rating and without a review: an empty dict and the
\* type casual_viewer
C23_Witness ==
    /\ Generated
    /\ profile_ratings = <<>>
    /\ review_lengths = <<>>
    /\ ~patterns.raised
    /\ DOMAIN patterns.dict = {}
    /\ personality.type = "casual_viewer"

-----------------------------------------------------------------------------
(* Claims about the personality match of a comparison *)

\* the type of each of the two profiles compared
TypeOf(n) ==
    IF n = 1 THEN personality_type(ratings_1, engaged[1])
    ELSE personality_type(ratings_2, engaged[2])

\* the types whose name contains the word
TypesWith(word) ==
    IF word = "critic" THEN {"discerning_critic"}
    ELSE IF word = "fan" THEN {"enthusiastic_fan"}
    ELSE {}

SameFamily ==
    \E word \in {"critic", "fan"} : {TypeOf(1), TypeOf(2)} \subseteq TypesWith(word)

\* C22: personality_match is 0.9 when the two types are the same, 0.7 when
\* they differ and both names contain 'critic' or both contain 'fan', and
\* 0.5 otherwise
C22_PersonalityMatch ==
    Calculated =>
        compatibility.personality_match =
            IF TypeOf(1) = TypeOf(2) THEN Frac(9, 10)
            ELSE IF SameFamily THEN Frac(7, 10)
            ELSE Frac(1, 2)

\* two critics match at 0.9
C22_Witness ==
    /\ Calculated
    /\ TypeOf(1) = "discerning_critic"
    /\ TypeOf(2) = "discerning_critic"
    /\ compatibility.personality_match = Frac(9, 10)

\* C30: for the four types generate_personality_profile returns,
\* personality_match is 0.9 exactly when the two types are equal and 0.5
\* otherwise, never 0.7
C30_ReachablePersonalityMatch ==
    Calculated =>
        /\ {TypeOf(1), TypeOf(2)} \subseteq
              {"discerning_critic", "enthusiastic_fan", "thoughtful_reviewer",
               "casual_viewer"}
        /\ compatibility.personality_match = Frac(9, 10)
              <=> TypeOf(1) = TypeOf(2)
        /\ compatibility.personality_match = Frac(1, 2)
              <=> TypeOf(1) # TypeOf(2)
        /\ compatibility.personality_match # Frac(7, 10)

\* a critic and a fan match at 0.5
C30_Witness ==
    /\ Calculated
    /\ TypeOf(1) = "discerning_critic"
    /\ TypeOf(2) = "enthusiastic_fan"
    /\ compatibility.personality_match = Frac(1, 2)

-----------------------------------------------------------------------------
(* Claims about the primary dataset of the store step *)

Stored == store_pc = "stored"

\* the rows stored from the primary dataset: those that are not likes
StoredOfPrimary == SelectSeq(stored_ratings, LAMBDA row : ~row.is_liked)

TitlesOf(frame, column) == [i \in 1..Len(frame) |-> frame[i][column]]

RatingsNeverPrimary ==
    store_pc \in {"loaded", "stored"} =>
        (analyzer_profile.ratings # <<>> => analyzer_profile.all_films # <<>>)

-----------------------------------------------------------------------------
(* scrape_all: scrape_profile_info, scrape_diary_entries, scrape_reviews,  *)
(* scrape_watchlist, scrape_custom_lists, then save_all_data.  The profile *)
(* info, the watchlist and the custom lists take no part in the three      *)
(* lists save_all_data reconciles, so the steps kept are the diary, the    *)
(* reviews and the save.                                                   *)

\* scrape_all is called on a new scraper for a user whose films pages list
\* site_films
ScrapeAllCalled ==
    /\ site_films \in {films \in ListsOf(FilmRecords) : DatedOnce(films)}
    /\ scrape_all_pc = "diary"

\* self.scrape_diary_entries()
ScrapeAllDiary ==
    /\ scrape_all_pc = "diary"
    /\ \E entries \in ListsOf(DiaryRecords) : diary_entries' = entries
    /\ scrape_all_pc' = "reviews"
    /\ UNCHANGED <<films_data, reviews_data, all_ratings, all_likes, resolved,
                   save_state, save_runs, site_films, fetchVars, taskVars,
                   jobVars, storeVars, starsVars, compareVars, tierVars,
                   patternVars, queueVars>>

\* self.scrape_reviews()
ScrapeAllReviews ==
    /\ scrape_all_pc = "reviews"
    /\ \E reviews \in ListsOf(ReviewRecords) :
          /\ Len(diary_entries) + Len(reviews) <= MaxScraped
          /\ reviews_data' = reviews
    /\ scrape_all_pc' = "save"
    /\ UNCHANGED <<films_data, diary_entries, all_ratings, all_likes, resolved,
                   save_state, save_runs, site_films, fetchVars, taskVars,
                   jobVars, storeVars, starsVars, compareVars, tierVars,
                   patternVars, queueVars>>

\* self.save_all_data(), then the return of scrape_all
ScrapeAllSave ==
    /\ scrape_all_pc = "save"
    /\ all_ratings' = saved.rows
    /\ resolved' = saved.entries
    /\ all_likes' = saved.likes
    /\ save_state' = saved.state
    /\ save_runs' = save_runs + 1
    /\ scrape_all_pc' = IF saved.state = "raised" THEN "raised" ELSE "returned"
    /\ UNCHANGED <<films_data, diary_entries, reviews_data, site_films,
                   fetchVars, taskVars, jobVars, storeVars, starsVars,
                   compareVars, tierVars, patternVars, queueVars>>

InitScrapeAll == ScrapeAllCalled /\ Idle("scrape_all")

NextScrapeAll == ScrapeAllDiary \/ ScrapeAllReviews \/ ScrapeAllSave

SpecScrapeAll == InitScrapeAll /\ [][NextScrapeAll]_vars

ListsRatedFilm == \E i \in 1..Len(site_films) : Truthy(site_films[i].rating)

\* C25: scrape_all has scraped the all-films universal set when it calls
\* save_all_data, so a user whose films pages list a rated film gets a
\* non-empty ratings subset
C25_CompleteScrape ==
    scrape_all_pc = "returned" =>
        /\ films_data = site_films
        /\ ListsRatedFilm => all_ratings # <<>>

\* scrape_all never fills films_data, and the ratings subset it saves is
\* empty
ScrapeAllWithoutFilms ==
    /\ films_data = <<>>
    /\ all_ratings = <<>>

-----------------------------------------------------------------------------
(* save_all_data on a film with rewatches: one film of the universal set,  *)
(* diary entries of that title and at most one review                      *)

MaxRewatches == 2

\* the lists are scraped: one film, its diary entries, a review or none
RewatchesScraped ==
    /\ films_data \in [1..1 -> FilmRecords]
    /\ diary_entries \in
          UNION {[1..n -> {entry \in DiaryRecords : entry.title \in FilmTitles}] :
                    n \in 0..MaxRewatches}
    /\ reviews_data \in UNION {[1..n -> ReviewRecords] : n \in 0..1}
    /\ all_ratings = <<>>
    /\ all_likes = <<>>
    /\ resolved = <<>>
    /\ save_state = "not_run"
    /\ save_runs = 0

InitOverlay == RewatchesScraped /\ Idle("rec")

NextOverlay == save_all_data

SpecOverlay == InitOverlay /\ [][NextOverlay]_vars

\* the diary entries with the lookup key of the film
EntriesOfFilm(film) ==
    {d \in 1..Len(diary_entries) :
        HasKey(diary_entries[d], LookupKey(film.title, film.year))}

\* C28: when several diary entries have the lookup key of a film without a
\* rating of its own, the diary rating used is that of the last of them; if
\* the last is unrated no diary rating is applied, whatever the earlier
\* ones hold, and the review rating is used
C28_LastRewatchWins ==
    SaveRan =>
        \A i \in 1..Len(films_data) :
            LET film == films_data[i]
                D == EntriesOfFilm(film)
                last == CHOOSE d \in D : \A e \in D : e <= d
                r == LastWithKey(reviews_data, LookupKey(film.title, film.year))
            IN (~Truthy(film.rating) /\ D # {}) =>
                  IF Truthy(diary_entries[last].rating)
                  THEN resolved[i].Rating = diary_entries[last].rating
                  ELSE resolved[i].Rating =
                          IF r # 0 /\ Truthy(reviews_data[r].rating)
                          THEN reviews_data[r].rating ELSE EmptyStr

\* an unrated film watched twice, rated in the first diary entry and not in
\* the last, and reviewed with a rating: the review's rating is used
C28_Witness ==
    /\ SaveRan
    /\ ~Truthy(films_data[1].rating)
    /\ EntriesOfFilm(films_data[1]) = {1, 2}
    /\ Truthy(diary_entries[1].rating)
    /\ ~Truthy(diary_entries[2].rating)
    /\ Len(reviews_data) = 1
    /\ Truthy(reviews_data[1].rating)
    /\ resolved[1].Rating = reviews_data[1].rating

-----------------------------------------------------------------------------
(* Claims about the rows and the progress of a job *)

InProgressCheckpoints == {0, 10, 25, 40, 55, 70, 80, 90, 95}

\* C29: over the status updates of a job, progress_percentage never
\* decreases while the status is in_progress and is one of 0, 10, 25, 40,
\* 55, 70, 80, 90, 95; 100 comes only with the status completed; started_at
\* is set at the first in_progress update and never changes afterwards
C29_ProgressCheckpoints ==
    [][/\ (job.status = "in_progress" /\ job'.status = "in_progress") =>
              job'.progress_percentage >= job.progress_percentage
       /\ job'.status = "in_progress" =>
              job'.progress_percentage \in InProgressCheckpoints
       /\ job'.progress_percentage = 100 => job'.status = "completed"
       /\ (job.status = "queued" /\ job'.status = "in_progress") =>
              (job.started_at = None /\ job'.started_at = clock')
       /\ job.started_at # None => job'.started_at = job.started_at]_vars

\* the last in_progress update, at 95, long after started_at was set
C29_Witness ==
    /\ job.status = "in_progress"
    /\ job.progress_percentage = 95
    /\ job.started_at = 1
    /\ clock = 9

-----------------------------------------------------------------------------
(* The scraping jobs of one profile: scrape_profile, which runs without a *)
(* break between its check and create_job, and the background task of    *)
(* each job, which starts after the response and ends failed (C11)       *)

MaxRequests == 4

ActiveStatuses == {"queued", "in_progress"}

ActiveJobs == {k \in 1..Len(scraping_jobs) : scraping_jobs[k] \in ActiveStatuses}

\* existing_job and existing_job.status == "in_progress", existing_job being
\* the job of the profile with the latest queued_at
rejects(jobs) == jobs # <<>> /\ jobs[Len(jobs)] = "in_progress"

\* POST /scrape/profile/{username}
ScrapeProfile ==
    /\ Len(responses) < MaxRequests
    /\ IF rejects(scraping_jobs)
       THEN /\ responses' = Append(responses,
                                   [active |-> ActiveJobs # {}, code |-> 409])
            /\ UNCHANGED scraping_jobs
       ELSE /\ responses' = Append(responses,
                                   [active |-> ActiveJobs # {}, code |-> 200])
            /\ scraping_jobs' = Append(scraping_jobs, "queued")
    /\ UNCHANGED <<recVars, fetchVars, taskVars, jobVars, storeVars, starsVars,
                   compareVars, tierVars, patternVars, scrapeAllVars>>

\* the background task of a job makes its first update_job_status
TaskStarts ==
    /\ \E k \in 1..Len(scraping_jobs) :
          /\ scraping_jobs[k] = "queued"
          /\ scraping_jobs' = [scraping_jobs EXCEPT ![k] = "in_progress"]
    /\ UNCHANGED <<responses, recVars, fetchVars, taskVars, jobVars, storeVars,
                   starsVars, compareVars, tierVars, patternVars,
                   scrapeAllVars>>

\* the background task of a job ends in its except clause
TaskEnds ==
    /\ \E k \in 1..Len(scraping_jobs) :
          /\ scraping_jobs[k] = "in_progress"
          /\ scraping_jobs' = [scraping_jobs EXCEPT ![k] = "failed"]
    /\ UNCHANGED <<responses, recVars, fetchVars, taskVars, jobVars, storeVars,
                   starsVars, compareVars, tierVars, patternVars,
                   scrapeAllVars>>

InitQueue == QueueIdle /\ Idle("queue")

NextQueue == ScrapeProfile \/ TaskStarts \/ TaskEnds

SpecQueue == InitQueue /\ [][NextQueue]_vars

\* C26: a profile never has two scraping jobs that are queued or
\* in_progress at the same time, and a start request made while a job of
\* the profile is active is answered 409 and creates no job
C26_OneActiveJob ==
    /\ Cardinality(ActiveJobs) <= 1
    /\ \A n \in 1..Len(responses) :
          responses[n].active => responses[n].code = 409

\* a request made while the last job of the profile is in_progress is
\* rejected, and a rejected request creates no job
InProgressRejected ==
    [][(rejects(scraping_jobs) /\ responses' # responses) =>
          /\ responses'[Len(responses')].code = 409
          /\ scraping_jobs' = scraping_jobs]_vars

====
